---- MODULE Spec2Model ----
(***************************************************************************)
(* Model of the CareDesk appointment ledger (src/CareDesk/bot.py):         *)
(* the normalisers, the match predicates, the worksheet header             *)
(* reconciliation, and the two ledger operations log_appointment and       *)
(* update_appointment run by concurrent call sessions under                *)
(* APPOINTMENT_LOG_LOCK.                                                   *)
(*                                                                         *)
(* Text is modelled as a sequence of one-character strings, so that        *)
(* stripping, lower-casing, substring and suffix tests, digit filtering    *)
(* and date parsing are computed as the code computes them.  Python's      *)
(* None and "" are both the empty sequence: every read of a cell in the    *)
(* code goes through _cell_text (None -> "") or a truthiness test, which   *)
(* do not tell them apart.                                                 *)
(***************************************************************************)
EXTENDS Integers, Sequences, FiniteSets, TLC

\* ------------------------------------------------------------------ text

Digits == {"0", "1", "2", "3", "4", "5", "6", "7", "8", "9"}

DIGIT_CHARS == <<"0", "1", "2", "3", "4", "5", "6", "7", "8", "9">>

UPPER == <<"A", "B", "C", "D", "E", "F", "G", "H", "I", "J", "K", "L", "M",
           "N", "O", "P", "Q", "R", "S", "T", "U", "V", "W", "X", "Y", "Z">>

LOWER == <<"a", "b", "c", "d", "e", "f", "g", "h", "i", "j", "k", "l", "m",
           "n", "o", "p", "q", "r", "s", "t", "u", "v", "w", "x", "y", "z">>

IsDigit(c) == c \in Digits

DigitVal(c) == (CHOOSE i \in 1..10 : DIGIT_CHARS[i] = c) - 1

DigitChar(n) == DIGIT_CHARS[n + 1]

\* s[i], or "" outside the string
At(s, i) == IF i >= 1 /\ i <= Len(s) THEN s[i] ELSE ""

AllDigits(s, i, j) == \A k \in i..j : IsDigit(At(s, k))

RECURSIVE Num(_)
\* int(s) of a digit string
Num(s) == IF s = <<>> THEN 0 ELSE 10 * Num(SubSeq(s, 1, Len(s) - 1)) + DigitVal(s[Len(s)])

LowerChar(c) ==
    IF \E i \in 1..26 : UPPER[i] = c
    THEN LOWER[CHOOSE i \in 1..26 : UPPER[i] = c]
    ELSE c

\* str.lower()
Lower(s) == [i \in 1..Len(s) |-> LowerChar(s[i])]

RECURSIVE LStrip(_)
LStrip(s) == IF s # <<>> /\ Head(s) = " " THEN LStrip(Tail(s)) ELSE s

RECURSIVE RStrip(_)
RStrip(s) == IF s # <<>> /\ s[Len(s)] = " " THEN RStrip(SubSeq(s, 1, Len(s) - 1)) ELSE s

\* str.strip()
Strip(s) == RStrip(LStrip(s))

\* needle in hay
Contains(hay, needle) ==
    \E i \in 0..(Len(hay) - Len(needle)) : SubSeq(hay, i + 1, i + Len(needle)) = needle

\* hay.endswith(suffix)
EndsWith(hay, suffix) ==
    /\ Len(suffix) <= Len(hay)
    /\ SubSeq(hay, Len(hay) - Len(suffix) + 1, Len(hay)) = suffix

\* the value  a or b  of two texts
OrElse(a, b) == IF a # <<>> THEN a ELSE b

\* the first non-empty text of a sequence of texts, or <<>>
FirstNonEmpty(texts) ==
    IF \A k \in 1..Len(texts) : texts[k] = <<>> THEN <<>>
    ELSE texts[CHOOSE k \in 1..Len(texts) :
                  texts[k] # <<>> /\ \A j \in 1..(k - 1) : texts[j] = <<>>]

\* the first positive number of a sequence of numbers, or 0
FirstPositive(ns) ==
    IF \A k \in 1..Len(ns) : ns[k] = 0 THEN 0
    ELSE ns[CHOOSE k \in 1..Len(ns) : ns[k] > 0 /\ \A j \in 1..(k - 1) : ns[j] = 0]

\* ---------------------------------------------------------- normalisers

_cell_text(value) == Strip(value)

SHEET_NAME_MAX == 31

UNSAFE_SHEET_CHARS == {"\\", "/", "*", "?", ":", "[", "]"}

_safe_sheet_name(value) ==
    IF value = <<>> THEN <<>>
    ELSE LET cleaned == Strip([i \in 1..Len(value) |->
                                 IF value[i] \in UNSAFE_SHEET_CHARS THEN "-" ELSE value[i]])
         IN IF cleaned = <<>> THEN <<>>
            ELSE SubSeq(cleaned, 1, IF Len(cleaned) < SHEET_NAME_MAX THEN Len(cleaned)
                                                                     ELSE SHEET_NAME_MAX)

_normalize_phone(value) ==
    IF value = <<>> THEN <<>> ELSE SelectSeq(value, IsDigit)

\* The five strptime formats, in the order the code tries them.
DATE_FORMATS == << [sep |-> "-", order |-> "Ymd"],
                   [sep |-> "/", order |-> "dmY"],
                   [sep |-> "/", order |-> "mdY"],
                   [sep |-> "-", order |-> "dmY"],
                   [sep |-> "-", order |-> "mdY"] >>

\* The three digit fields of s around exactly two separators, or <<>>.
DateFields(s, sep) ==
    LET P == {i \in 1..Len(s) : s[i] = sep}
    IN IF Cardinality(P) = 2 /\ \A i \in (1..Len(s)) \ P : IsDigit(s[i])
       THEN LET i == CHOOSE x \in P : \A y \in P : x <= y
                j == CHOOSE x \in P : \A y \in P : x >= y
            IN << SubSeq(s, 1, i - 1), SubSeq(s, i + 1, j - 1), SubSeq(s, j + 1, Len(s)) >>
       ELSE <<>>

IsLeap(y) == (y % 4 = 0 /\ y % 100 # 0) \/ y % 400 = 0

DaysInMonth(y, m) ==
    IF m = 2 THEN (IF IsLeap(y) THEN 29 ELSE 28)
    ELSE IF m \in {4, 6, 9, 11} THEN 30 ELSE 31

Pad2(n) == << DigitChar(n \div 10), DigitChar(n % 10) >>

\* strftime("%Y-%m-%d")
FormatDate(y, m, d) ==
    << DigitChar(y \div 1000), DigitChar((y \div 100) % 10),
       DigitChar((y \div 10) % 10), DigitChar(y % 10) >>
    \o <<"-">> \o Pad2(m) \o <<"-">> \o Pad2(d)

\* the date of year y, month m, day d as strftime("%Y-%m-%d") prints it, or
\* <<>> when there is no such date
MakeDate(y, m, d) ==
    IF y >= 1 /\ m \in 1..12 /\ d >= 1 /\ d <= DaysInMonth(y, m)
    THEN FormatDate(y, m, d)
    ELSE <<>>

\* %Y takes four digits, %m and %d one or two
FieldsDate(ys, ms, ds) ==
    IF Len(ys) = 4 /\ Len(ms) \in {1, 2} /\ Len(ds) \in {1, 2}
    THEN MakeDate(Num(ys), Num(ms), Num(ds))
    ELSE <<>>

\* the three fields f read in the order of the format
OrderedDate(f, order) ==
    IF f = <<>> THEN <<>>
    ELSE IF order = "Ymd" THEN FieldsDate(f[1], f[2], f[3])
    ELSE IF order = "dmY" THEN FieldsDate(f[3], f[2], f[1])
    ELSE FieldsDate(f[3], f[1], f[2])

\* datetime.strptime(s, fmt).strftime("%Y-%m-%d"), or <<>> on ValueError
ParseDate(s, fmt) == OrderedDate(DateFields(s, fmt.sep), fmt.order)

\* the for-loop over the formats: the first successful parse, or <<>>
TryFormats(s) ==
    FirstNonEmpty([k \in 1..Len(DATE_FORMATS) |-> ParseDate(s, DATE_FORMATS[k])])

\* number of consecutive digits of s from position p, at most cap
RECURSIVE DigitRun(_, _, _)
DigitRun(s, p, cap) ==
    IF cap = 0 \/ ~IsDigit(At(s, p)) THEN 0 ELSE 1 + DigitRun(s, p + 1, cap - 1)

\* length of a match of \d{4}-\d{1,2}-\d{1,2} at position i whose second
\* group takes n1 digits, or 0
DateReAlt1Try(s, i, n1) ==
    IF /\ AllDigits(s, i, i + 3)
       /\ At(s, i + 4) = "-"
       /\ AllDigits(s, i + 5, i + 4 + n1)
       /\ At(s, i + 5 + n1) = "-"
       /\ IsDigit(At(s, i + 6 + n1))
    THEN 6 + n1 + DigitRun(s, i + 6 + n1, 2)
    ELSE 0

\* length of a match of \d{4}-\d{1,2}-\d{1,2} at position i, or 0
DateReAlt1(s, i) == FirstPositive(<< DateReAlt1Try(s, i, 2), DateReAlt1Try(s, i, 1) >>)

\* length of a match of \d{1,2}[/-]\d{1,2}[/-]\d{2,4} at position i whose
\* first groups take n0 and n1 digits, or 0
DateReAlt2Try(s, i, n0, n1) ==
    IF /\ AllDigits(s, i, i + n0 - 1)
       /\ At(s, i + n0) \in {"/", "-"}
       /\ AllDigits(s, i + n0 + 1, i + n0 + n1)
       /\ At(s, i + n0 + n1 + 1) \in {"/", "-"}
       /\ DigitRun(s, i + n0 + n1 + 2, 4) >= 2
    THEN n0 + n1 + 2 + DigitRun(s, i + n0 + n1 + 2, 4)
    ELSE 0

\* length of a match of \d{1,2}[/-]\d{1,2}[/-]\d{2,4} at position i, or 0
DateReAlt2(s, i) ==
    FirstPositive(<< DateReAlt2Try(s, i, 2, 2), DateReAlt2Try(s, i, 2, 1),
                     DateReAlt2Try(s, i, 1, 2), DateReAlt2Try(s, i, 1, 1) >>)

DateReAt(s, i) == FirstPositive(<< DateReAlt1(s, i), DateReAlt2(s, i) >>)

\* the leftmost match, lens[i] being the length of the match at i (0: none)
LeftmostMatch(s, lens) ==
    IF \A i \in 1..Len(s) : lens[i] = 0 THEN <<>>
    ELSE SubSeq(s, CHOOSE i \in 1..Len(s) : lens[i] > 0 /\ \A j \in 1..(i - 1) : lens[j] = 0,
                (CHOOSE i \in 1..Len(s) : lens[i] > 0 /\ \A j \in 1..(i - 1) : lens[j] = 0)
                + FirstPositive(lens) - 1)

\* re.search of the date-shaped pattern: group(1) of the leftmost match, or <<>>
DateRegexSearch(s) == LeftmostMatch(s, [i \in 1..Len(s) |-> DateReAt(s, i)])

\* dateutil's fuzzy parser is an optional import.  On the texts of this
\* model that reach it (free words naming no month, weekday or number) it
\* raises, or is not installed; either way the code falls through.
DateutilFuzzy(cleaned) == <<>>

\* lines 310-336 on the stripped text: the direct parse, else the parse of
\* the date-shaped part, else the fuzzy parse, else the text itself
CleanedDate(cleaned) ==
    FirstNonEmpty(<< TryFormats(cleaned), TryFormats(DateRegexSearch(cleaned)),
                     DateutilFuzzy(cleaned), cleaned >>)

_normalize_date(value) == IF value = <<>> THEN <<>> ELSE CleanedDate(Strip(value))


\* length of a match of (\d{1,2})(?::(\d{2}))? at position i (i holds a digit)
TimeReHourLen(s, i) == DigitRun(s, i, 2)

TimeReHasMinute(s, i) ==
    LET p == i + TimeReHourLen(s, i)
    IN At(s, p) = ":" /\ IsDigit(At(s, p + 1)) /\ IsDigit(At(s, p + 2))

RECURSIVE SkipSpaces(_, _)
SkipSpaces(s, p) == IF At(s, p) = " " THEN SkipSpaces(s, p + 1) ELSE p

\* group(3) of the match: "am", "pm" or "" (no match)
TimeReAmPm(s, i) ==
    LET p == i + TimeReHourLen(s, i) + (IF TimeReHasMinute(s, i) THEN 3 ELSE 0)
        q == SkipSpaces(s, p)
    IN IF At(s, q) = "a" /\ At(s, q + 1) = "m" THEN "am"
       ELSE IF At(s, q) = "p" /\ At(s, q + 1) = "m" THEN "pm"
       ELSE ""

W_MORNING == <<"m", "o", "r", "n", "i", "n", "g">>
W_AM == <<"a", "m">>
W_AFTERNOON == <<"a", "f", "t", "e", "r", "n", "o", "o", "n">>
W_NOON == <<"n", "o", "o", "n">>
W_PM == <<"p", "m">>
W_EVENING == <<"e", "v", "e", "n", "i", "n", "g">>
W_NIGHT == <<"n", "i", "g", "h", "t">>

\* mutant: the afternoon lasts to hour 17 (line 383 with 17 for 16)
HourBucket_LongAfternoon(hour, minute) ==
    IF 5 <= hour /\ hour <= 11 THEN W_MORNING
    ELSE IF 12 <= hour /\ hour <= 17 THEN W_AFTERNOON
    ELSE IF 18 <= hour /\ hour <= 22 THEN W_EVENING
    ELSE Pad2(hour) \o <<":">> \o Pad2(minute)

\* lines 381-387
HourBucket(hour, minute) ==
    IF 5 <= hour /\ hour <= 11 THEN W_MORNING
    ELSE IF 12 <= hour /\ hour <= 16 THEN W_AFTERNOON
    ELSE IF 17 <= hour /\ hour <= 22 THEN W_EVENING
    ELSE Pad2(hour) \o <<":">> \o Pad2(minute)

\* lines 376-379
AdjustHour(hour, ampm) ==
    IF ampm = "pm" /\ hour < 12 THEN hour + 12
    ELSE IF ampm = "am" /\ hour = 12 THEN 0
    ELSE hour

\* lines 368-387: the match starts at i, the leftmost digit of text
TimeReBucket(text, i) ==
    HourBucket(AdjustHour(Num(SubSeq(text, i, i + TimeReHourLen(text, i) - 1)),
                          TimeReAmPm(text, i)),
               IF TimeReHasMinute(text, i)
               THEN Num(SubSeq(text, i + TimeReHourLen(text, i) + 1,
                               i + TimeReHourLen(text, i) + 2))
               ELSE 0)

\* lines 361-366: the bucket a keyword of text names, or <<>>
KeywordBucket(text) ==
    IF Contains(text, W_MORNING) \/ Contains(text, W_AM) THEN W_MORNING
    ELSE IF Contains(text, W_AFTERNOON) \/ Contains(text, W_NOON) \/ Contains(text, W_PM)
         THEN W_AFTERNOON
    ELSE IF Contains(text, W_EVENING) \/ Contains(text, W_NIGHT) THEN W_EVENING
    ELSE <<>>

\* lines 361-387 on the lower-cased text; by_keyword is KeywordBucket(text)
TextBucket(text, by_keyword) ==
    IF by_keyword # <<>> THEN by_keyword
    ELSE IF \A i \in 1..Len(text) : ~IsDigit(text[i]) THEN text
    ELSE TimeReBucket(text, CHOOSE i \in 1..Len(text) :
                               IsDigit(text[i]) /\ \A j \in 1..(i - 1) : ~IsDigit(text[j]))

\* lines 359-387
LowerBucket(text) == TextBucket(text, KeywordBucket(text))

_normalize_time_bucket(value) ==
    IF value = <<>> THEN <<>> ELSE LowerBucket(Lower(_cell_text(value)))

\* ------------------------------------------------------- match predicates

PHONE_SUFFIX_MIN == 7

\* mutant: an ending of any length matches (the length tests of lines 397, 399 left out)
_phone_matches_AnySuffix(search, candidate) ==
    IF search = <<>> THEN TRUE
    ELSE IF candidate = <<>> THEN FALSE
    ELSE EndsWith(candidate, search) \/ EndsWith(search, candidate)

\* lines 390-401
_phone_matches(search, candidate) ==
    IF search = <<>> THEN TRUE
    ELSE IF candidate = <<>> THEN FALSE
    ELSE IF search = candidate THEN TRUE
    ELSE IF Len(search) >= PHONE_SUFFIX_MIN /\ EndsWith(candidate, search) THEN TRUE
    ELSE IF Len(candidate) >= PHONE_SUFFIX_MIN /\ EndsWith(search, candidate) THEN TRUE
    ELSE FALSE

\* line 411
EitherContains(x, y) == Contains(y, x) \/ Contains(x, y)

\* mutant: the empty candidate is tested before the empty search
_text_matches_CandidateFirst(search, candidate) ==
    IF candidate = <<>> THEN FALSE
    ELSE IF search = <<>> THEN TRUE
    ELSE EitherContains(Lower(Strip(search)), Lower(Strip(candidate)))

\* lines 404-411
_text_matches(search, candidate) ==
    IF search = <<>> THEN TRUE
    ELSE IF candidate = <<>> THEN FALSE
    ELSE EitherContains(Lower(Strip(search)), Lower(Strip(candidate)))

\* lines 426-432
NormsMatch(s_norm, c_norm) == s_norm = c_norm \/ EitherContains(s_norm, c_norm)

_date_matches(search, candidate) ==
    IF search = <<>> THEN TRUE
    ELSE IF candidate = <<>> THEN FALSE
    ELSE NormsMatch(Lower(Strip(_normalize_date(_cell_text(search)))),
                    Lower(Strip(_normalize_date(_cell_text(candidate)))))

\* lines 444-453
RawTimesMatch(s_raw, c_raw) ==
    \/ _normalize_time_bucket(s_raw) = _normalize_time_bucket(c_raw)
    \/ EitherContains(s_raw, c_raw)

_time_matches(search, candidate) ==
    IF search = <<>> THEN TRUE
    ELSE IF candidate = <<>> THEN FALSE
    ELSE RawTimesMatch(Lower(_cell_text(search)), Lower(_cell_text(candidate)))

\* ------------------------------------------------------------- worksheets
\* A workbook is a sequence of worksheets in sheetnames order.  A worksheet
\* is [name, hdr, rows]: hdr is row 1 (column names as atomic strings, ""
\* for an empty header cell), rows are rows 2.. (each a sequence of cell
\* texts by column; a cell beyond the end of its row is empty).

APPOINTMENTS_HEADERS ==
    << "Logged At", "Action", "Patient Name", "Patient Age or DOB", "Phone",
       "Department or Doctor", "Reason", "Preferred Date", "Preferred Time",
       "Visit Type", "Existing Appointment", "Notes" >>

DEFAULT_APPOINTMENTS_SHEET == <<"A", "p", "p", "o", "i", "n", "t", "m", "e", "n", "t", "s">>

SetMax(S) == CHOOSE x \in S : \A y \in S : x >= y

\* sheet.max_column
MaxColumn(sheet) ==
    SetMax({1, Len(sheet.hdr)} \cup {Len(sheet.rows[i]) : i \in 1..Len(sheet.rows)})

\* sheet.max_row
MaxRow(sheet) == 1 + Len(sheet.rows)

\* [cell.value for cell in sheet[1]]
HeaderCells(sheet) ==
    [i \in 1..MaxColumn(sheet) |-> IF i <= Len(sheet.hdr) THEN sheet.hdr[i] ELSE ""]

\* sheet.cell(row=row_idx, column=col_idx).value, row_idx >= 2
CellValue(sheet, row_idx, col_idx) ==
    LET r == sheet.rows[row_idx - 1]
    IN IF col_idx <= Len(r) THEN r[col_idx] ELSE <<>>

\* the row after  sheet.cell(row, column=col_idx).value = v
SetCell(r, col_idx, v) ==
    [i \in 1..(IF col_idx > Len(r) THEN col_idx ELSE Len(r)) |->
        IF i = col_idx THEN v ELSE IF i <= Len(r) THEN r[i] ELSE <<>>]

\* lines 464-468: column name -> column position, the last cell of a name winning
HeaderMap(cells) ==
    [n \in {cells[i] : i \in 1..Len(cells)} \ {""} |->
        SetMax({i \in 1..Len(cells) : cells[i] = n})]

\* lines 470-477: the missing names appended after the last column
WithHeaders(sheet, cells) == [sheet |-> [sheet EXCEPT !.hdr = cells], header_map |-> HeaderMap(cells)]

\* mutant: every required name is appended, present or not (line 472 left out)
EnsureHeaderCells_AppendAll(sheet, header_cells) ==
    IF MaxRow(sheet) = 1 /\ MaxColumn(sheet) = 1 /\ header_cells[1] = ""
    THEN WithHeaders(sheet, APPOINTMENTS_HEADERS)
    ELSE WithHeaders(sheet, header_cells \o APPOINTMENTS_HEADERS)

\* lines 459-477 on the header cells read at line 457
EnsureHeaderCells(sheet, header_cells) ==
    IF MaxRow(sheet) = 1 /\ MaxColumn(sheet) = 1 /\ header_cells[1] = ""
    THEN WithHeaders(sheet, APPOINTMENTS_HEADERS)
    ELSE WithHeaders(sheet,
                     header_cells \o SelectSeq(APPOINTMENTS_HEADERS,
                                               LAMBDA n : \A i \in 1..Len(header_cells) :
                                                             header_cells[i] # n))

\* The worksheet as _ensure_sheet_headers leaves it, and the header map it
\* returns (column name -> column position).
_ensure_sheet_headers(sheet) == EnsureHeaderCells(sheet, HeaderCells(sheet))

\* mutant: the row is inserted above the data rows
SheetAppend_First(sheet, row) == [sheet EXCEPT !.rows = <<row>> \o @]

\* sheet.append(row)
SheetAppend(sheet, row) == [sheet EXCEPT !.rows = Append(@, row)]

\* mutant: the relocated row is left in its worksheet
SheetDeleteRow_Keep(sheet, row_idx) == sheet

\* sheet.delete_rows(row_idx, 1)
SheetDeleteRow(sheet, row_idx) ==
    [sheet EXCEPT !.rows = SubSeq(@, 1, row_idx - 2) \o SubSeq(@, row_idx, Len(@))]

\* workbook.sheetnames
SheetNames(sheets) == [i \in 1..Len(sheets) |-> sheets[i].name]

HasSheet(sheets, name) == \E i \in 1..Len(sheets) : sheets[i].name = name

SheetIndex(sheets, name) == CHOOSE i \in 1..Len(sheets) : sheets[i].name = name

\* workbook.create_sheet(name) / Workbook().active with its title set
NewSheet(name) == [name |-> name, hdr |-> <<>>, rows |-> <<>>]


\* ------------------------------------------------------ routing and rows

\* date-sharded values of APPOINTMENTS_SHEET_MODE
PER_DATE_MODES == {"per_date", "date", "dated"}

\* datetime.now().strftime("%Y-%m-%d"): the model's runs take place on one day
TODAY == <<"2", "0", "2", "5", "-", "0", "1", "-", "0", "1">>

_use_single_appointments_sheet(sheet_mode) == sheet_mode \notin PER_DATE_MODES

\* os.getenv("APPOINTMENTS_SHEET_NAME", DEFAULT_APPOINTMENTS_SHEET), unset
ENV_SHEET_NAME == DEFAULT_APPOINTMENTS_SHEET

\* lines 351-353
DatedSheetName(target_date) == OrElse(_safe_sheet_name(target_date), TODAY)

_appointments_sheet_name(sheet_mode, preferred_date_norm, existing_norm) ==
    IF _use_single_appointments_sheet(sheet_mode)
    THEN OrElse(_safe_sheet_name(ENV_SHEET_NAME), DEFAULT_APPOINTMENTS_SHEET)
    ELSE DatedSheetName(OrElse(OrElse(preferred_date_norm, _normalize_date(existing_norm)),
                               TODAY))

\* log_appointment's row (lines 634-647), logged_at being the formatted clock
LogRow(a, logged_at) ==
    << logged_at,
       _cell_text(a.action),
       _cell_text(a.patient_name),
       _cell_text(a.patient_age_or_dob),
       OrElse(_normalize_phone(a.phone), _cell_text(a.phone)),
       _cell_text(a.department_or_doctor),
       _cell_text(a.reason),
       OrElse(_normalize_date(a.preferred_date), _cell_text(a.preferred_date)),
       _cell_text(a.preferred_time),
       _cell_text(a.visit_type),
       _cell_text(a.existing_appointment),
       _cell_text(a.notes) >>

LogSheetName(sheet_mode, a) ==
    _appointments_sheet_name(sheet_mode, _normalize_date(a.preferred_date),
                             _cell_text(a.existing_appointment))

\* The ledger file: [exists, sheets].
NoFile == [exists |-> FALSE, sheets |-> <<>>]

\* mutant: the new workbook keeps its default worksheet beside the named one
LoadOrCreate_KeepDefault(f, sheet_name) ==
    IF f.exists
    THEN (IF HasSheet(f.sheets, sheet_name) THEN f.sheets
          ELSE Append(f.sheets, NewSheet(sheet_name)))
    ELSE << NewSheet(<<"S", "h", "e", "e", "t">>), NewSheet(sheet_name) >>

\* _append_row_to_workbook, lines 485-494: the workbook and the worksheet
LoadOrCreate(f, sheet_name) ==
    IF f.exists
    THEN (IF HasSheet(f.sheets, sheet_name) THEN f.sheets
          ELSE Append(f.sheets, NewSheet(sheet_name)))
    ELSE << NewSheet(sheet_name) >>

\* mutant: the row is appended without the header row being reconciled
EnsureAndAppend_NoHeaders(sheets, sheet_name, row) ==
    LET i == SheetIndex(sheets, sheet_name)
    IN [sheets EXCEPT ![i] = SheetAppend(@, row)]

\* _append_row_to_workbook, lines 496-497
EnsureAndAppend(sheets, sheet_name, row) ==
    LET i == SheetIndex(sheets, sheet_name)
    IN [sheets EXCEPT ![i] = SheetAppend(_ensure_sheet_headers(@).sheet, row)]

\* ------------------------------------------------------ update_appointment

\* lines 685-688: the search criteria after the fallbacks
SearchName(a) == IF a.search_name = <<>> /\ a.patient_name # <<>> THEN a.patient_name
                 ELSE a.search_name

SearchPhone(a) == IF a.search_phone = <<>> /\ a.phone # <<>> THEN a.phone ELSE a.search_phone

\* mutant: the guard's last operand is negated
NoSearch_Slip(a) ==
    /\ a.search_name = <<>> /\ a.patient_name = <<>>
    /\ a.search_phone = <<>> /\ a.phone = <<>>
    /\ a.search_date = <<>> /\ a.search_time # <<>>

\* line 690
NoSearch(a) ==
    SearchName(a) = <<>> /\ SearchPhone(a) = <<>> /\ a.search_date = <<>> /\ a.search_time = <<>>

\* lines 703-706
SheetHintOf(sheet_mode, search_date_norm) ==
    IF _use_single_appointments_sheet(sheet_mode)
    THEN _appointments_sheet_name(sheet_mode, search_date_norm, <<>>)
    ELSE (IF search_date_norm # <<>> THEN _safe_sheet_name(search_date_norm) ELSE <<>>)

\* lines 701-706
SheetHint(sheet_mode, a) == SheetHintOf(sheet_mode, _normalize_date(a.search_date))

\* lines 714-717
ScanOrder(sheets, sheet_hint) ==
    IF sheet_hint # <<>> /\ HasSheet(sheets, sheet_hint)
    THEN << sheet_hint >> \o SelectSeq(SheetNames(sheets), LAMBDA n : n # sheet_hint)
    ELSE SheetNames(sheets)

\* lines 725-728
RowValues(sheet, header_map, row_idx) ==
    [h \in DOMAIN header_map |-> CellValue(sheet, row_idx, header_map[h])]

\* mutant: the search_name test of lines 739-740 is left out
IsCandidate_NoName(row_values, a) ==
    /\ \E h \in DOMAIN row_values : row_values[h] # <<>>
    /\ _normalize_phone(SearchPhone(a)) # <<>> =>
          _phone_matches(_normalize_phone(SearchPhone(a)),
                         _normalize_phone(_cell_text(row_values["Phone"])))
    /\ a.search_date # <<>> =>
          \E h \in {"Preferred Date", "Existing Appointment"} :
              _date_matches(a.search_date, _cell_text(row_values[h]))
    /\ a.search_time # <<>> =>
          \E h \in {"Preferred Time", "Existing Appointment"} :
              _time_matches(a.search_time, _cell_text(row_values[h]))

\* mutant: the search_date test of lines 743-747 is left out
IsCandidate_NoDate(row_values, a) ==
    /\ \E h \in DOMAIN row_values : row_values[h] # <<>>
    /\ SearchName(a) # <<>> =>
          _text_matches(SearchName(a), _cell_text(row_values["Patient Name"]))
    /\ _normalize_phone(SearchPhone(a)) # <<>> =>
          _phone_matches(_normalize_phone(SearchPhone(a)),
                         _normalize_phone(_cell_text(row_values["Phone"])))
    /\ a.search_time # <<>> =>
          \E h \in {"Preferred Time", "Existing Appointment"} :
              _time_matches(a.search_time, _cell_text(row_values[h]))

\* lines 730-752: the row is not blank and passes every supplied criterion
IsCandidate(row_values, a) ==
    /\ \E h \in DOMAIN row_values : row_values[h] # <<>>
    /\ SearchName(a) # <<>> =>
          _text_matches(SearchName(a), _cell_text(row_values["Patient Name"]))
    /\ _normalize_phone(SearchPhone(a)) # <<>> =>
          _phone_matches(_normalize_phone(SearchPhone(a)),
                         _normalize_phone(_cell_text(row_values["Phone"])))
    /\ a.search_date # <<>> =>
          \E h \in {"Preferred Date", "Existing Appointment"} :
              _date_matches(a.search_date, _cell_text(row_values[h]))
    /\ a.search_time # <<>> =>
          \E h \in {"Preferred Time", "Existing Appointment"} :
              _time_matches(a.search_time, _cell_text(row_values[h]))

\* lines 721-722 for every scanned worksheet: the workbook with each header
\* row reconciled
ReconcileAll(sheets) == [i \in 1..Len(sheets) |-> _ensure_sheet_headers(sheets[i]).sheet]

\* line 754: the rows hit of the worksheet named name, as candidates
Located(name, hit) == [k \in 1..Len(hit) |-> [sheet |-> name, row |-> hit[k]]]

\* lines 724-754: the candidates of a reconciled worksheet, top to bottom
CandidatesIn(e, a) ==
    Located(e.sheet.name,
            SelectSeq([k \in 1..Len(e.sheet.rows) |-> k + 1],
                      LAMBDA r : IsCandidate(RowValues(e.sheet, e.header_map, r), a)))

\* the candidates (sheet_name, row_idx) of one worksheet, top to bottom
SheetCandidates(sheet, a) == CandidatesIn(_ensure_sheet_headers(sheet), a)

RECURSIVE CandidatesFrom(_, _, _, _)
CandidatesFrom(sheets, order, k, a) ==
    IF k > Len(order) THEN <<>>
    ELSE SheetCandidates(sheets[SheetIndex(sheets, order[k])], a)
         \o CandidatesFrom(sheets, order, k + 1, a)

\* lines 719-754
Candidates(sheets, sheet_mode, a) ==
    CandidatesFrom(sheets, ScanOrder(sheets, SheetHint(sheet_mode, a)), 1, a)

MAX_MATCHES == 10

\* lines 765-773: one entry of matches
MatchEntry(c, v) ==
    [sheet |-> c.sheet,
     row |-> c.row,
     patient_name |-> _cell_text(v["Patient Name"]),
     phone |-> _cell_text(v["Phone"]),
     preferred_date |-> _cell_text(v["Preferred Date"]),
     preferred_time |-> _cell_text(v["Preferred Time"]),
     existing_appointment |-> _cell_text(v["Existing Appointment"])]

\* the row_values of a candidate
CandidateValues(e, c) == RowValues(e.sheet, e.header_map, c.row)

\* lines 764-775
MatchEntries(sheets, candidates) ==
    [k \in 1..(IF Len(candidates) < MAX_MATCHES THEN Len(candidates) ELSE MAX_MATCHES) |->
        MatchEntry(candidates[k],
                   CandidateValues(_ensure_sheet_headers(
                                       sheets[SheetIndex(sheets, candidates[k].sheet)]),
                                   candidates[k]))]

W_RESCHED == <<"r", "e", "s", "c", "h", "e", "d">>

\* action_value.lower().startswith("resched")
IsResched(a) ==
    LET t == Lower(_cell_text(a.action))
    IN Len(t) >= Len(W_RESCHED) /\ SubSeq(t, 1, Len(W_RESCHED)) = W_RESCHED

\* " ".join([p for p in parts if p]) of two parts
JoinNonEmpty(p1, p2) ==
    IF p1 = <<>> THEN p2 ELSE IF p2 = <<>> THEN p1 ELSE p1 \o <<" ">> \o p2

\* lines 787-795: the existing_appointment argument after the snapshot
\* rule, snapshot being the row's date and time joined
SnapshotOr(row_values, a, snapshot) ==
    IF /\ a.existing_appointment = <<>>
       /\ IsResched(a)
       /\ _cell_text(row_values["Existing Appointment"]) = <<>>
       /\ snapshot # <<>>
    THEN snapshot
    ELSE a.existing_appointment

\* lines 787-795
ExistingArg(row_values, a) ==
    SnapshotOr(row_values, a, JoinNonEmpty(_cell_text(row_values["Preferred Date"]),
                                           _cell_text(row_values["Preferred Time"])))

\* lines 797-816: an update value v, when not empty, replaces old
Put(v, old) == IF v # <<>> THEN v ELSE old

\* lines 784-816: updated_values
UpdatedValues(row_values, a) ==
    [h \in DOMAIN row_values |->
        CASE h = "Action" -> _cell_text(a.action)
          [] h = "Patient Name" -> Put(a.patient_name, row_values[h])
          [] h = "Patient Age or DOB" -> Put(a.patient_age_or_dob, row_values[h])
          [] h = "Phone" -> Put(OrElse(_normalize_phone(a.phone), a.phone), row_values[h])
          [] h = "Department or Doctor" -> Put(a.department_or_doctor, row_values[h])
          [] h = "Reason" -> Put(a.reason, row_values[h])
          [] h = "Preferred Date" ->
                Put(OrElse(_normalize_date(a.preferred_date), a.preferred_date), row_values[h])
          [] h = "Preferred Time" -> Put(a.preferred_time, row_values[h])
          [] h = "Visit Type" -> Put(a.visit_type, row_values[h])
          [] h = "Existing Appointment" -> Put(ExistingArg(row_values, a), row_values[h])
          [] h = "Notes" -> Put(a.notes, row_values[h])
          [] OTHER -> row_values[h]]

\* mutant: the routing policy is not consulted (line 821 left out)
NewSheetName_AnyMode(sheet_mode, sheet_name, a) ==
    IF a.preferred_date # <<>> /\ IsResched(a)
    THEN OrElse(_safe_sheet_name(_normalize_date(a.preferred_date)), sheet_name)
    ELSE sheet_name

\* lines 818-823
NewSheetName(sheet_mode, sheet_name, a) ==
    IF /\ ~_use_single_appointments_sheet(sheet_mode)
       /\ a.preferred_date # <<>>
       /\ IsResched(a)
    THEN OrElse(_safe_sheet_name(_normalize_date(a.preferred_date)), sheet_name)
    ELSE sheet_name

\* line 832
TargetRow(updated_values) ==
    [i \in 1..Len(APPOINTMENTS_HEADERS) |->
        IF APPOINTMENTS_HEADERS[i] \in DOMAIN updated_values
        THEN updated_values[APPOINTMENTS_HEADERS[i]] ELSE <<>>]

RECURSIVE WriteCells(_, _, _, _)
\* lines 837-841: the row after writing every mapped column but Logged At
WriteCells(r, header_map, updated_values, todo) ==
    IF todo = {} THEN r
    ELSE LET h == CHOOSE x \in todo : TRUE
         IN WriteCells(IF h = "Logged At" THEN r
                       ELSE SetCell(r, header_map[h], updated_values[h]),
                       header_map, updated_values, todo \ {h})

\* lines 831-835: the row appended to the target worksheet and deleted from its own
AppendAndDelete(sheets, cand, target_row, new_sheet_name) ==
    [sheets |->
        [[sheets EXCEPT ![SheetIndex(sheets, new_sheet_name)] =
                            SheetAppend(_ensure_sheet_headers(@).sheet, target_row)]
            EXCEPT ![SheetIndex(sheets, cand.sheet)] = SheetDeleteRow(@, cand.row)],
     sheet |-> new_sheet_name, moved |-> TRUE]

\* lines 826-835: the target worksheet is the existing one of that name, or is created
Relocate(sheets, cand, target_row, new_sheet_name) ==
    AppendAndDelete(IF HasSheet(sheets, new_sheet_name) THEN sheets
                    ELSE Append(sheets, NewSheet(new_sheet_name)),
                    cand, target_row, new_sheet_name)

\* mutant: the values are written to every row of the worksheet
WriteInPlace_EveryRow(sheets, cand, e, updated_values) ==
    [sheets |-> [sheets EXCEPT ![SheetIndex(sheets, cand.sheet)] =
                    [e.sheet EXCEPT !.rows =
                        [k \in 1..Len(@) |->
                            WriteCells(@[k], e.header_map, updated_values,
                                       DOMAIN e.header_map)]]],
     sheet |-> cand.sheet, moved |-> FALSE]

\* lines 837-841
WriteInPlace(sheets, cand, e, updated_values) ==
    [sheets |-> [sheets EXCEPT ![SheetIndex(sheets, cand.sheet)] =
                    [e.sheet EXCEPT !.rows[cand.row - 1] =
                        WriteCells(@, e.header_map, updated_values, DOMAIN e.header_map)]],
     sheet |-> cand.sheet, moved |-> FALSE]

\* lines 825-841
Place(sheets, cand, e, updated_values, new_sheet_name) ==
    IF new_sheet_name # cand.sheet
    THEN Relocate([sheets EXCEPT ![SheetIndex(sheets, cand.sheet)] = e.sheet],
                  cand, TargetRow(updated_values), new_sheet_name)
    ELSE WriteInPlace(sheets, cand, e, updated_values)

\* lines 784-841, e being the candidate's worksheet and header map (line 782)
MutateSheet(sheets, sheet_mode, cand, a, e) ==
    Place(sheets, cand, e, UpdatedValues(CandidateValues(e, cand), a),
          NewSheetName(sheet_mode, cand.sheet, a))

\* lines 780-841 on the scanned workbook: the workbook after the mutation of
\* the first candidate, the final worksheet name and whether the row moved
Mutate(sheets, sheet_mode, cand, a) ==
    MutateSheet(sheets, sheet_mode, cand, a,
                _ensure_sheet_headers(sheets[SheetIndex(sheets, cand.sheet)]))

\* _resolve_appointments_path() without APPOINTMENTS_XLSX_PATH, line 282
LOG_PATH == "appointments.xlsx"

\* A structured result handed to params.result_callback; path is set in the
\* results of lines 654, 659, 663 and 845.
Result(status, reason, sheet, moved, matches) ==
    [status |-> status, reason |-> reason, sheet |-> sheet, moved |-> moved,
     matches |-> matches,
     path |-> IF status \in {"logged", "error", "updated"} THEN LOG_PATH ELSE ""]

NoResult == Result("none", "", <<>>, FALSE, <<>>)

\* mutant: two candidates are not yet taken as ambiguous
Ambiguous_OverTwo(candidates, a) ==
    Len(candidates) > 2 /\ a.search_date = <<>> /\ a.search_time = <<>>

\* line 761
Ambiguous(candidates, a) ==
    Len(candidates) > 1 /\ a.search_date = <<>> /\ a.search_time = <<>>

\* lines 843-845: the outcome of an update of candidate cand, m being the mutation
Updated(m, cand) ==
    [status |-> "updated", sheets |-> m.sheets, sel |-> cand,
     result |-> Result("updated", "", m.sheet, m.moved, <<>>)]

\* the outcome of a call that changes no row
Unchanged(status, sheets, matches) ==
    [status |-> status, sheets |-> sheets, sel |-> [sheet |-> <<>>, row |-> 0],
     result |-> Result(status, "", <<>>, FALSE, matches)]

\* mutant: line 780 takes the last candidate, candidates[-1]
Decide_LastCandidate(candidates, sheets, sheet_mode, a) ==
    IF candidates = <<>> THEN Unchanged("not_found", sheets, <<>>)
    ELSE IF Ambiguous(candidates, a)
    THEN Unchanged("multiple_matches", sheets, MatchEntries(sheets, candidates))
    ELSE Updated(Mutate(sheets, sheet_mode, candidates[Len(candidates)], a),
                 candidates[Len(candidates)])

\* lines 756-847 on the candidates and the scanned workbook
Decide(candidates, sheets, sheet_mode, a) ==
    IF candidates = <<>> THEN Unchanged("not_found", sheets, <<>>)
    ELSE IF Ambiguous(candidates, a)
    THEN Unchanged("multiple_matches", sheets, MatchEntries(sheets, candidates))
    ELSE Updated(Mutate(sheets, sheet_mode, candidates[1], a), candidates[1])

\* lines 719-847 on a loaded workbook: the scan, the decision and the
\* mutation.  [status, sheets, sel, result]; sheets is the workbook in memory.
ScanAndMutate(sheets0, sheet_mode, a) ==
    Decide(Candidates(sheets0, sheet_mode, a), ReconcileAll(sheets0), sheet_mode, a)


\* ----------------------------------------------------------- bounds, inputs

\* ledger operations invoked in one run, over all sessions
MaxOps == 3

\* call sessions (one task per active call)
Sessions == {1, 2}

ANN == <<"A", "n", "n">>
BOB == <<"B", "o", "b">>
S_ANN == <<"a", "n", "n">>
PHONE_RAW == <<"5", "5", "5", "-", "1", "2", "3", "4", "5", "6", "7">>
S_PHONE7 == <<"1", "2", "3", "4", "5", "6", "7">>
S_NODIGIT == <<"n", "/", "a">>
D1 == <<"2", "0", "2", "5", "-", "0", "1", "-", "0", "2">>
D1_SLASH == <<"0", "2", "/", "0", "1", "/", "2", "0", "2", "5">>
D2 == <<"2", "0", "2", "5", "-", "0", "1", "-", "0", "3">>
T_0930 == <<"9", ":", "3", "0">>
T_1500 == <<"1", "5", ":", "0", "0">>
A_BOOK == <<"b", "o", "o", "k">>
A_RESCHEDULE == <<"R", "e", "s", "c", "h", "e", "d", "u", "l", "e">>
A_CANCEL == <<"c", "a", "n", "c", "e", "l">>
X_OLD == <<"o", "l", "d">>
N_NOTE == <<"o", "k">>
E_MAIL == <<"a", "@", "x">>

NoArgs ==
    [action |-> <<>>, search_name |-> <<>>, search_phone |-> <<>>, search_date |-> <<>>,
     search_time |-> <<>>, patient_name |-> <<>>, patient_age_or_dob |-> <<>>,
     phone |-> <<>>, department_or_doctor |-> <<>>, reason |-> <<>>,
     preferred_date |-> <<>>, preferred_time |-> <<>>, visit_type |-> <<>>,
     existing_appointment |-> <<>>, notes |-> <<>>]

\* arguments of log_appointment calls
LogArgs ==
    { [NoArgs EXCEPT !.action = A_BOOK, !.patient_name = ANN, !.phone = PHONE_RAW,
                     !.preferred_date = D1_SLASH, !.preferred_time = T_0930],
      [NoArgs EXCEPT !.action = A_BOOK, !.patient_name = ANN, !.phone = S_NODIGIT,
                     !.preferred_date = D2] }

\* the search criteria of update_appointment calls
UpdateSearches ==
    { [NoArgs EXCEPT !.search_name = S_ANN],
      [NoArgs EXCEPT !.search_name = S_ANN, !.search_date = D1],
      [NoArgs EXCEPT !.search_phone = S_PHONE7],
      [NoArgs EXCEPT !.search_phone = S_NODIGIT],
      [NoArgs EXCEPT !.search_time = W_MORNING],
      NoArgs }

\* the action and update fields of update_appointment calls
UpdateFields ==
    { [NoArgs EXCEPT !.action = A_CANCEL, !.patient_name = BOB, !.phone = PHONE_RAW,
                     !.notes = N_NOTE],
      [NoArgs EXCEPT !.action = A_RESCHEDULE],
      [NoArgs EXCEPT !.action = A_RESCHEDULE, !.preferred_date = D2, !.preferred_time = T_1500],
      [NoArgs EXCEPT !.action = A_RESCHEDULE, !.preferred_date = D1_SLASH,
                     !.existing_appointment = X_OLD] }

\* arguments of update_appointment calls arriving one at a time
UpdateArgs ==
    { [q EXCEPT !.action = u.action, !.patient_name = u.patient_name, !.phone = u.phone,
                !.preferred_date = u.preferred_date, !.preferred_time = u.preferred_time,
                !.existing_appointment = u.existing_appointment, !.notes = u.notes] :
        q \in UpdateSearches, u \in UpdateFields }

\* calls arriving one at a time
Calls == ({"log"} \X LogArgs) \cup ({"update"} \X UpdateArgs)

\* calls of sessions that overlap
OverlapCalls ==
    ({"log"} \X { [NoArgs EXCEPT !.action = A_BOOK, !.patient_name = ANN,
                                 !.preferred_date = D1],
                  [NoArgs EXCEPT !.action = A_BOOK, !.patient_name = BOB,
                                 !.preferred_date = D2] })
    \cup
    ({"update"} \X { [NoArgs EXCEPT !.action = A_RESCHEDULE, !.search_name = S_ANN,
                                    !.preferred_date = D2] })

\* strftime("%Y-%m-%d %H:%M:%S") of the clock
FormatTime(n) == TODAY \o <<" ">> \o Pad2(n)

\* A ledger written under an earlier column layout: no Logged At, an extra column.
LegacyHeaders == << "Patient Name", "Phone", "Preferred Date", "Preferred Time", "Email" >>

LegacyFile(sheet_name) ==
    [exists |-> TRUE,
     sheets |-> << [name |-> sheet_name, hdr |-> LegacyHeaders,
                    rows |-> << << ANN, S_PHONE7, D2, T_0930, E_MAIL >> >>] >>]

\* rows of the ledger that many bookings of one patient have filled
BulkRows == 11

\* A ledger of BulkRows bookings of one patient, the first for D1 and the
\* others for D2, as BulkRows calls of log_appointment leave it.
BulkFile ==
    [exists |-> TRUE,
     sheets |-> << [name |-> DEFAULT_APPOINTMENTS_SHEET, hdr |-> APPOINTMENTS_HEADERS,
                    rows |-> [k \in 1..BulkRows |->
                                 LogRow([NoArgs EXCEPT !.action = A_BOOK, !.patient_name = ANN,
                                                       !.preferred_date =
                                                           IF k = 1 THEN D1 ELSE D2,
                                                       !.preferred_time = T_0930],
                                        FormatTime(0))]] >>]

\* ------------------------------------------------------------------ state

VARIABLES
    file,        \* the ledger file on disk
    lock,        \* APPOINTMENT_LOG_LOCK: 0 when free, else the session holding it
    pc,          \* where each session's tool call stands (raised: it ended in an exception)
    op,          \* each session's call: [kind, args]
    loc,         \* log_appointment's locals: [row, sheet]
    wb,          \* each session's workbook in memory
    sel,         \* update_appointment's candidates[0]: [sheet, row]
    res,         \* the result each session is about to hand to result_callback
    delivered,   \* the result each session's result_callback received for the call in progress
    sheet_mode,  \* APPOINTMENTS_SHEET_MODE
    overlap,     \* whether several sessions place calls in this run, or only session 1
    sameLoop,    \* whether the sessions are tasks of one event loop thread
    running,     \* in one event loop: the session running on the thread, or 0
    now,         \* the clock, in seconds
    tick,        \* seconds between two calls of this run (0 when sessions overlap)
    opsLeft,     \* calls still to be invoked
    file0,       \* the ledger file at start
    serial,      \* the ledger produced by the same calls run one at a time
    agree,       \* whether every call ended as it does in that serial run
    nLogged,     \* calls that ended logged
    fnCall,      \* a helper function applied on its own: [fn, ...arguments]
    fnValues     \* the values its successive applications returned

vars == << file, lock, pc, op, loc, wb, sel, res, delivered, sheet_mode,
           overlap, sameLoop, running, now, tick, opsLeft, file0, serial, agree, nLogged,
           fnCall, fnValues >>

\* the variables of the ledger operations
ledger == << file, lock, pc, op, loc, wb, sel, res, delivered, sheet_mode,
             overlap, sameLoop, running, now, tick, opsLeft, file0, serial, agree, nLogged >>

\* no helper function is applied on its own
NoCall == [fn |-> "none"]

NoOp == [kind |-> "none", args |-> NoArgs]
\* exc: the exception caught at lines 652-657, if any
NoLoc == [row |-> <<>>, sheet |-> <<>>, exc |-> "none"]
NoSel == [sheet |-> <<>>, row |-> 0]

Init ==
    /\ sheet_mode \in {"single", "per_date"}
    /\ overlap \in BOOLEAN
    /\ file \in IF overlap THEN {NoFile}
                ELSE IF _use_single_appointments_sheet(sheet_mode)
                THEN {NoFile, LegacyFile(DEFAULT_APPOINTMENTS_SHEET), BulkFile}
                ELSE {NoFile, LegacyFile(D2)}
    /\ file0 = file
    /\ serial = file
    /\ agree = TRUE
    /\ nLogged = 0
    /\ lock = 0
    /\ pc = [s \in Sessions |-> "idle"]
    /\ op = [s \in Sessions |-> NoOp]
    /\ loc = [s \in Sessions |-> NoLoc]
    /\ wb = [s \in Sessions |-> <<>>]
    /\ sel = [s \in Sessions |-> NoSel]
    /\ res = [s \in Sessions |-> NoResult]
    /\ delivered = [s \in Sessions |-> NoResult]
    /\ sameLoop \in (IF overlap THEN BOOLEAN ELSE {TRUE})
    /\ running = 0
    /\ now = 0
    /\ tick = (IF overlap THEN 0 ELSE 1)
    /\ opsLeft = MaxOps
    /\ fnCall = NoCall
    /\ fnValues = <<>>

\* ------------------------------------------------------------- scheduling

\* mutant: the critical section is entered without waiting for the lock
LockFree_Unchecked(l) == TRUE

\* threading.Lock: acquire succeeds only on a free lock
LockFree(l) == l = 0

\* A coroutine runs on its thread from one suspension point to the next:
\* in one event loop a session steps only while it has the thread, or takes
\* the idle thread when it is a task ready to start or to resume.
CanRun(s) ==
    \/ ~sameLoop
    \/ running = s
    \/ running = 0 /\ pc[s] \in {"ready", "awaiting"}

\* the thread after a step of s: kept while s runs on, given up when s
\* suspends or returns
Keep(s) == running' = IF sameLoop THEN s ELSE 0
Yield == running' = 0

\* the with-block is left: the lock is released if s holds it
Released(s) == IF lock = s THEN 0 ELSE lock

\* storage failures: a PermissionError or any other exception
Failures == {"permission", "other"}


\* --------------------------------------------------------------- actions

\* The conversational layer calls a tool: a task is created for it.
Invoke(s) ==
    /\ pc[s] \in {"idle", "raised"}
    /\ opsLeft > 0
    /\ sameLoop => running = 0
    /\ overlap \/ s = 1
    /\ \E call \in (IF overlap THEN OverlapCalls ELSE Calls) :
          op' = [op EXCEPT ![s] = [kind |-> call[1], args |-> call[2]]]
    /\ pc' = [pc EXCEPT ![s] = "ready"]
    /\ opsLeft' = opsLeft - 1
    /\ UNCHANGED << file, lock, delivered, loc, wb, sel, res, sheet_mode, overlap, sameLoop, running, now, tick,
                    file0, serial, agree, nLogged >>
    /\ UNCHANGED << fnCall, fnValues >>

\* log_appointment, lines 627-647: the sheet name and the row, stamped with the clock
LogStart(s) ==
    /\ pc[s] = "ready" /\ op[s].kind = "log"
    /\ CanRun(s)
    /\ now' = now + tick
    /\ loc' = [loc EXCEPT ![s] = [row |-> LogRow(op[s].args, FormatTime(now)),
                                  sheet |-> LogSheetName(sheet_mode, op[s].args),
                                  exc |-> "none"]]
    /\ pc' = [pc EXCEPT ![s] = "acquire"]
    /\ Keep(s)
    /\ UNCHANGED << file, lock, op, wb, sel, res, delivered, sheet_mode, overlap, sameLoop,
                    tick, opsLeft, file0, serial, agree, nLogged >>
    /\ UNCHANGED << fnCall, fnValues >>

\* with APPOINTMENT_LOG_LOCK: (lines 650, 711); the thread waits while the lock is held
Acquire(s) ==
    /\ pc[s] = "acquire"
    /\ CanRun(s)
    /\ LockFree(lock)
    /\ lock' = s
    /\ pc' = [pc EXCEPT ![s] = "locked"]
    /\ Keep(s)
    /\ UNCHANGED << file, op, loc, wb, sel, res, delivered, sheet_mode, overlap, sameLoop,
                    now, tick, opsLeft, file0, serial, agree, nLogged >>
    /\ UNCHANGED << fnCall, fnValues >>

\* mutant: the except clauses in the other order, Exception first
LogError_AnyFirst(f) == Result("error", "write_failed", <<>>, FALSE, <<>>)

\* log_appointment's except clauses, lines 652-661
LogError(f) ==
    Result("error", IF f = "permission" THEN "file_locked" ELSE "write_failed",
           <<>>, FALSE, <<>>)

\* an exception f leaves the try block of s's log_appointment: the
\* with-block releases the lock and the except clause builds the result
LogFails(s, f) ==
    /\ lock' = Released(s)
    /\ wb' = [wb EXCEPT ![s] = <<>>]
    /\ loc' = [loc EXCEPT ![s].exc = f]
    /\ res' = [res EXCEPT ![s] = LogError(f)]
    /\ pc' = [pc EXCEPT ![s] = "callback"]

\* _append_row_to_workbook, lines 481-494: the workbook is loaded or created
LogLoad(s) ==
    /\ pc[s] = "locked" /\ op[s].kind = "log"
    /\ CanRun(s)
    /\ \/ /\ wb' = [wb EXCEPT ![s] = LoadOrCreate(file, loc[s].sheet)]
          /\ pc' = [pc EXCEPT ![s] = "loaded"]
          /\ UNCHANGED << lock, loc, res >>
       \/ \E f \in Failures : LogFails(s, f)
    /\ Keep(s)
    /\ UNCHANGED << file, op, sel, delivered, sheet_mode, overlap, sameLoop, now, tick,
                    opsLeft, file0, serial, agree, nLogged >>
    /\ UNCHANGED << fnCall, fnValues >>

\* _append_row_to_workbook, lines 496-497
LogAppend(s) ==
    /\ pc[s] = "loaded" /\ op[s].kind = "log"
    /\ CanRun(s)
    /\ \/ /\ wb' = [wb EXCEPT ![s] = EnsureAndAppend(@, loc[s].sheet, loc[s].row)]
          /\ pc' = [pc EXCEPT ![s] = "mutated"]
          /\ UNCHANGED << lock, loc, res >>
       \/ \E f \in Failures : LogFails(s, f)
    /\ Keep(s)
    /\ UNCHANGED << file, op, sel, delivered, sheet_mode, overlap, sameLoop,
                    now, tick, opsLeft, file0, serial, agree, nLogged >>
    /\ UNCHANGED << fnCall, fnValues >>

\* the same call applied to the serial ledger at once
SerialLog(f, sheet_name, row) ==
    [exists |-> TRUE,
     sheets |-> EnsureAndAppend(LoadOrCreate(f, sheet_name), sheet_name, row)]

\* _append_row_to_workbook, line 498, and lines 650-663: save, leave the
\* with-block, build the result
LogSave(s) ==
    /\ pc[s] = "mutated" /\ op[s].kind = "log"
    /\ CanRun(s)
    /\ \/ /\ file' = [exists |-> TRUE, sheets |-> wb[s]]
          /\ serial' = SerialLog(serial, loc[s].sheet, loc[s].row)
          /\ nLogged' = nLogged + 1
          /\ res' = [res EXCEPT ![s] = Result("logged", "", loc[s].sheet, FALSE, <<>>)]
          /\ lock' = Released(s)
          /\ pc' = [pc EXCEPT ![s] = "callback"]
          /\ UNCHANGED << loc, wb >>
       \/ \E f \in Failures :
             /\ LogFails(s, f)
             /\ UNCHANGED << file, serial, nLogged >>
    /\ Keep(s)
    /\ UNCHANGED << op, sel, delivered, sheet_mode, overlap, sameLoop, now, tick,
                    opsLeft, file0, agree >>
    /\ UNCHANGED << fnCall, fnValues >>

\* update_appointment, lines 685-709: the guards taken before the lock
UpdStart(s) ==
    /\ pc[s] = "ready" /\ op[s].kind = "update"
    /\ CanRun(s)
    /\ IF NoSearch(op[s].args)
       THEN /\ res' = [res EXCEPT ![s] = Result("missing_search", "", <<>>, FALSE, <<>>)]
            /\ pc' = [pc EXCEPT ![s] = "callback"]
            /\ UNCHANGED agree
       ELSE IF ~file.exists
       THEN /\ res' = [res EXCEPT ![s] =
                          Result("not_found", "missing_workbook", <<>>, FALSE, <<>>)]
            /\ pc' = [pc EXCEPT ![s] = "callback"]
            /\ agree' = (agree /\ ~serial.exists)
       ELSE /\ pc' = [pc EXCEPT ![s] = "acquire"]
            /\ UNCHANGED << res, agree >>
    /\ Keep(s)
    /\ UNCHANGED << file, lock, op, loc, wb, sel, delivered, sheet_mode, overlap, sameLoop,
                    now, tick, opsLeft, file0, serial, nLogged >>
    /\ UNCHANGED << fnCall, fnValues >>

\* An exception leaves the coroutine: the with-block releases the lock and
\* no result reaches result_callback.
Raise(s) ==
    /\ lock' = Released(s)
    /\ pc' = [pc EXCEPT ![s] = "raised"]
    /\ op' = [op EXCEPT ![s] = NoOp]
    /\ loc' = [loc EXCEPT ![s] = NoLoc]
    /\ wb' = [wb EXCEPT ![s] = <<>>]
    /\ sel' = [sel EXCEPT ![s] = NoSel]
    /\ res' = [res EXCEPT ![s] = NoResult]
    /\ Yield

\* update_appointment, line 712
UpdLoad(s) ==
    /\ pc[s] = "locked" /\ op[s].kind = "update"
    /\ CanRun(s)
    /\ \/ /\ wb' = [wb EXCEPT ![s] = file.sheets]
          /\ pc' = [pc EXCEPT ![s] = "loaded"]
          /\ Keep(s)
          /\ UNCHANGED << lock, op, loc, sel, res >>
       \/ Raise(s)
    /\ UNCHANGED << file, delivered, sheet_mode, overlap, sameLoop, now, tick, opsLeft, file0, serial,
                    agree, nLogged >>
    /\ UNCHANGED << fnCall, fnValues >>

\* the outcome r of s's scan is taken: a mutated workbook to save, or a result
Scanned(s, r) ==
    /\ wb' = [wb EXCEPT ![s] = r.sheets]
    /\ sel' = [sel EXCEPT ![s] = r.sel]
    /\ IF r.status = "updated"
       THEN /\ pc' = [pc EXCEPT ![s] = "mutated"]
            /\ loc' = [loc EXCEPT ![s] = [row |-> <<>>, sheet |-> r.result.sheet, exc |-> "none"]]
            /\ UNCHANGED << res, agree >>
       ELSE /\ pc' = [pc EXCEPT ![s] = "callback"]
            /\ res' = [res EXCEPT ![s] = r.result]
            /\ agree' = (agree /\ serial.exists
                         /\ ScanAndMutate(serial.sheets, sheet_mode, op[s].args).result
                            = r.result)
            /\ UNCHANGED loc

\* mutant: the workbook is saved as the scan leaves it, whatever the outcome
UpdScan_Saves(s) ==
    /\ pc[s] = "loaded" /\ op[s].kind = "update"
    /\ CanRun(s)
    /\ Scanned(s, ScanAndMutate(wb[s], sheet_mode, op[s].args))
    /\ file' = [exists |-> TRUE, sheets |-> wb'[s]]
    /\ Keep(s)
    /\ UNCHANGED << lock, op, delivered, sheet_mode, overlap, sameLoop, now, tick, opsLeft,
                    file0, serial, nLogged >>
    /\ UNCHANGED << fnCall, fnValues >>

\* update_appointment, lines 714-841: scan, decide, mutate the workbook in memory
UpdScan(s) ==
    /\ pc[s] = "loaded" /\ op[s].kind = "update"
    /\ CanRun(s)
    /\ Scanned(s, ScanAndMutate(wb[s], sheet_mode, op[s].args))
    /\ Keep(s)
    /\ UNCHANGED << file, lock, op, delivered, sheet_mode, overlap, sameLoop, now, tick, opsLeft,
                    file0, serial, nLogged >>
    /\ UNCHANGED << fnCall, fnValues >>

\* s's update is saved with result mine; r is the same call on the serial ledger
Saved(s, r, mine) ==
    /\ res' = [res EXCEPT ![s] = mine]
    /\ IF serial.exists /\ r.status = "updated"
       THEN /\ serial' = [exists |-> TRUE, sheets |-> r.sheets]
            /\ agree' = (agree /\ r.result = mine)
       ELSE /\ serial' = serial
            /\ agree' = FALSE

\* mutant: the result is built without the save of line 843
UpdSave_Unsaved(s) ==
    /\ pc[s] = "mutated" /\ op[s].kind = "update"
    /\ CanRun(s)
    /\ \/ /\ file' = file
          /\ Saved(s, ScanAndMutate(serial.sheets, sheet_mode, op[s].args),
                   Result("updated", "", loc[s].sheet, loc[s].sheet # sel[s].sheet, <<>>))
          /\ pc' = [pc EXCEPT ![s] = "callback"]
          /\ Keep(s)
          /\ UNCHANGED << lock, op, loc, wb, sel >>
       \/ /\ Raise(s)
          /\ UNCHANGED << file, serial, agree >>
    /\ UNCHANGED << delivered, sheet_mode, overlap, sameLoop, now, tick, opsLeft, file0, nLogged >>
    /\ UNCHANGED << fnCall, fnValues >>

\* update_appointment, lines 843-845: save and build the result; the
\* with-block is still open
UpdSave(s) ==
    /\ pc[s] = "mutated" /\ op[s].kind = "update"
    /\ CanRun(s)
    /\ \/ /\ file' = [exists |-> TRUE, sheets |-> wb[s]]
          /\ Saved(s, ScanAndMutate(serial.sheets, sheet_mode, op[s].args),
                   Result("updated", "", loc[s].sheet, loc[s].sheet # sel[s].sheet, <<>>))
          /\ pc' = [pc EXCEPT ![s] = "callback"]
          /\ Keep(s)
          /\ UNCHANGED << lock, op, loc, wb, sel >>
       \/ /\ Raise(s)
          /\ UNCHANGED << file, serial, agree >>
    /\ UNCHANGED << delivered, sheet_mode, overlap, sameLoop, now, tick, opsLeft, file0, nLogged >>
    /\ UNCHANGED << fnCall, fnValues >>

\* await params.result_callback(result): the result is handed over; the
\* coroutine may be suspended there and give up the thread
Callback(s) ==
    /\ pc[s] = "callback"
    /\ CanRun(s)
    /\ delivered' = [delivered EXCEPT ![s] = res[s]]
    /\ pc' = [pc EXCEPT ![s] = "awaiting"]
    /\ \/ Keep(s)
       \/ Yield
    /\ UNCHANGED << file, lock, op, loc, wb, sel, res, sheet_mode, overlap, sameLoop, now, tick,
                    opsLeft, file0, serial, agree, nLogged >>
    /\ UNCHANGED << fnCall, fnValues >>

\* return result: the coroutine ends, leaving the with-block if it is inside one
Return(s) ==
    /\ pc[s] = "awaiting"
    /\ CanRun(s)
    /\ lock' = Released(s)
    /\ pc' = [pc EXCEPT ![s] = "idle"]
    /\ op' = [op EXCEPT ![s] = NoOp]
    /\ loc' = [loc EXCEPT ![s] = NoLoc]
    /\ wb' = [wb EXCEPT ![s] = <<>>]
    /\ sel' = [sel EXCEPT ![s] = NoSel]
    /\ res' = [res EXCEPT ![s] = NoResult]
    /\ delivered' = [delivered EXCEPT ![s] = NoResult]
    /\ Yield
    /\ UNCHANGED << file, sheet_mode, overlap, sameLoop, now, tick, opsLeft, file0, serial,
                    agree, nLogged >>
    /\ UNCHANGED << fnCall, fnValues >>

\* a step of s's tool call in progress
Progress(s) ==
    \/ LogStart(s)
    \/ Acquire(s)
    \/ LogLoad(s)
    \/ LogAppend(s)
    \/ LogSave(s)
    \/ UpdStart(s)
    \/ UpdLoad(s)
    \/ UpdScan(s)
    \/ UpdSave(s)
    \/ Callback(s)
    \/ Return(s)

Next == \E s \in Sessions : Invoke(s) \/ Progress(s)

Spec == Init /\ [][Next]_vars

\* positions of a tool call
PcValues == {"idle", "ready", "acquire", "locked", "loaded", "mutated", "callback",
             "awaiting", "raised"}

\* the enabling condition of Progress(s): s has a call in progress, may use
\* the thread, and is not waiting in Lock.acquire for a held lock
Runnable(s) ==
    /\ pc[s] \notin {"idle", "raised"}
    /\ CanRun(s)
    /\ pc[s] = "acquire" => LockFree(lock)

\* a step of s from a state where s can step: under Next these are the
\* Progress(s) steps, each of which moves pc[s] and no other position
Turn(s) ==
    /\ Runnable(s)
    /\ \E v \in PcValues \ {pc[s]} : pc' = [pc EXCEPT ![s] = v]

\* Fair scheduling: a tool call that can take a step eventually takes one
\* (the event loop runs every ready task, the OS every runnable thread).
FairSpec == Spec /\ \A s \in Sessions : WF_pc(Turn(s))

\* ------------------------------------------- helper functions on their own

\* header cells of a worksheet given to _ensure_sheet_headers
MaxHdr == 3

\* applications of _ensure_sheet_headers to one worksheet
MaxApply == 2

\* header cells: empty, required names, a name outside the schema
HeaderNames == {"", "Phone", "Patient Name", "Email"}

\* APPOINTMENTS_HEADERS in another order
ReorderedHeaders ==
    [i \in 1..Len(APPOINTMENTS_HEADERS) |->
        APPOINTMENTS_HEADERS[Len(APPOINTMENTS_HEADERS) + 1 - i]]

\* header rows: every row of up to MaxHdr cells, and the full schema in
\* order, reordered, and preceded by an extra column
HeaderRows ==
    UNION {[1..n -> HeaderNames] : n \in 0..MaxHdr}
    \cup {APPOINTMENTS_HEADERS, ReorderedHeaders, <<"Email">> \o APPOINTMENTS_HEADERS,
          LegacyHeaders}

\* data rows: none, one shorter and one longer than a short header row
DataRowSets == { <<>>, << <<ANN>> >>, << <<ANN, S_PHONE7, D2, T_0930, E_MAIL>>, <<>> >> }

Worksheets ==
    {[name |-> DEFAULT_APPOINTMENTS_SHEET, hdr |-> h, rows |-> r] :
        h \in HeaderRows, r \in DataRowSets}

\* the endings of a text
Suffixes(t) == {SubSeq(t, i, Len(t)) : i \in 1..Len(t)}

P_LONG == <<"9", "8", "8", "8", "1", "2", "3", "4", "5", "6", "7">>
P_NEAR == <<"1", "2", "3", "4", "5", "6", "8">>
P_SHORT == <<"9", "9", "9">>

\* normalized phones: none, and numbers of 1 to 11 digits, some endings of others
Phones == Suffixes(P_LONG) \cup Suffixes(P_NEAR) \cup {P_SHORT, <<>>}

\* names, dates and times as search tokens and as cell texts
Names == {<<>>, ANN, S_ANN, BOB}
Dates == {<<>>, D1, D1_SLASH, D2, X_OLD}
Times == {<<>>, T_0930, T_1500, W_MORNING, X_OLD}

\* worksheets to scan: rows as log_appointment writes them followed by a
\* blank row, and a row under the earlier column layout
ScannedSheets ==
    {[name |-> DEFAULT_APPOINTMENTS_SHEET, hdr |-> APPOINTMENTS_HEADERS,
      rows |-> << LogRow(a, FormatTime(0)), <<>> >>] : a \in LogArgs}
    \cup {LegacyFile(DEFAULT_APPOINTMENTS_SHEET).sheets[1]}

\* a booking of Ann for the date d, as log_appointment is called
AnnOn(d) ==
    [NoArgs EXCEPT !.action = A_BOOK, !.patient_name = ANN, !.phone = PHONE_RAW,
                   !.preferred_date = d, !.preferred_time = T_0930]

\* the ledger f after log_appointment(a) under the routing mode
Logged(f, mode, a) == SerialLog(f, LogSheetName(mode, a), LogRow(a, FormatTime(0)))

\* a date-sharded ledger after three bookings: one for D2, two for D1
ShardedBook ==
    Logged(Logged(Logged(NoFile, "per_date", AnnOn(D2)), "per_date", AnnOn(D1)),
           "per_date", AnnOn(D1)).sheets

\* that ledger after the first booking for D1 was rescheduled to D2: the
\* worksheet of D2, first in the workbook, holds a row whose existing
\* appointment names D1
RescheduledBook ==
    ScanAndMutate(ShardedBook, "per_date",
                  [NoArgs EXCEPT !.action = A_RESCHEDULE, !.search_name = S_ANN,
                                 !.search_date = D1, !.preferred_date = D2]).sheets

A_UPDATE == <<"u", "p", "d", "a", "t", "e">>

\* update_appointment calls that change the date of a booking and are not
\* reschedules
DateChanges ==
    { [NoArgs EXCEPT !.action = A_UPDATE, !.search_name = S_ANN, !.search_date = D1,
                     !.preferred_date = D2],
      [NoArgs EXCEPT !.action = A_CANCEL, !.search_name = S_ANN, !.search_date = D1,
                     !.preferred_date = D1_SLASH] }

\* time texts given to _normalize_time_bucket
TimeTexts ==
    { <<"5">>,
      <<"1", "1">>,
      <<"1", "2">>,
      <<"1", "6", ":", "4", "5">>,
      <<"1", "7">>,
      <<"2", "2">>,
      <<"4", ":", "5", "9">>,
      <<"2", "3", ":", "1", "5">>,
      <<"9", ":", "3", "0", " ">>,
      <<"a", "t", " ", "1", "0">>,
      <<"O", "l", "d">>,
      <<" ", "O", "l", "d", " ">>,
      <<"7", "p", "m">>,
      <<"1", "2", " ", "a", "m">>,
      <<"7", " ", "P", "M">>,
      <<"N", "o", "o", "n">> }

\* loaded workbooks given to update_appointment
Workbooks ==
    {ShardedBook, RescheduledBook, LegacyFile(D2).sheets,
     Logged(LegacyFile(D2), "per_date", AnnOn(D1)).sheets}

\* the helper calls examined
HelperCalls ==
    {[fn |-> "_ensure_sheet_headers", sheet |-> w] : w \in Worksheets}
    \cup {[fn |-> "_phone_matches", search |-> x, candidate |-> y] : x \in Phones, y \in Phones}
    \cup {[fn |-> "_text_matches", search |-> x, candidate |-> y] : x \in Names, y \in Names}
    \cup {[fn |-> "_date_matches", search |-> x, candidate |-> y] : x \in Dates, y \in Dates}
    \cup {[fn |-> "_time_matches", search |-> x, candidate |-> y] : x \in Times, y \in Times}
    \cup {[fn |-> "scan", sheet |-> w, args |-> a] :
              w \in ScannedSheets, a \in {x \in UpdateArgs : ~NoSearch(x)}}
    \cup {[fn |-> "_normalize_time_bucket", value |-> v] : v \in TimeTexts}
    \cup {[fn |-> "update_appointment", sheets |-> w, mode |-> m, args |-> a] :
              w \in Workbooks, m \in {"single", "per_date"},
              a \in {x \in UpdateArgs \cup DateChanges : ~NoSearch(x)}}

\* a helper function is applied outside any ledger operation
HelperInit ==
    /\ sheet_mode = "single"
    /\ overlap = FALSE
    /\ file = NoFile
    /\ file0 = file
    /\ serial = file
    /\ agree = TRUE
    /\ nLogged = 0
    /\ lock = 0
    /\ pc = [s \in Sessions |-> "idle"]
    /\ op = [s \in Sessions |-> NoOp]
    /\ loc = [s \in Sessions |-> NoLoc]
    /\ wb = [s \in Sessions |-> <<>>]
    /\ sel = [s \in Sessions |-> NoSel]
    /\ res = [s \in Sessions |-> NoResult]
    /\ delivered = [s \in Sessions |-> NoResult]
    /\ sameLoop = TRUE
    /\ running = 0
    /\ now = 0
    /\ tick = 1
    /\ opsLeft = 0
    /\ fnCall \in HelperCalls
    /\ fnValues = <<>>

\* the worksheet the next application works on: the one given, or the one
\* the last application left
CurrentSheet(values, sheet) == IF values = <<>> THEN sheet ELSE values[Len(values)].sheet

\* _ensure_sheet_headers(sheet), applied again to the worksheet it left
EnsureHeaders ==
    /\ fnCall.fn = "_ensure_sheet_headers"
    /\ Len(fnValues) < MaxApply
    /\ fnValues' = Append(fnValues, _ensure_sheet_headers(CurrentSheet(fnValues, fnCall.sheet)))
    /\ UNCHANGED << ledger, fnCall >>

\* _phone_matches(search, candidate)
PhoneMatches ==
    /\ fnCall.fn = "_phone_matches"
    /\ fnValues = <<>>
    /\ fnValues' = << _phone_matches(fnCall.search, fnCall.candidate) >>
    /\ UNCHANGED << ledger, fnCall >>

\* _text_matches(search, candidate)
TextMatches ==
    /\ fnCall.fn = "_text_matches"
    /\ fnValues = <<>>
    /\ fnValues' = << _text_matches(fnCall.search, fnCall.candidate) >>
    /\ UNCHANGED << ledger, fnCall >>

\* _date_matches(search, candidate)
DateMatches ==
    /\ fnCall.fn = "_date_matches"
    /\ fnValues = <<>>
    /\ fnValues' = << _date_matches(fnCall.search, fnCall.candidate) >>
    /\ UNCHANGED << ledger, fnCall >>

\* _time_matches(search, candidate)
TimeMatches ==
    /\ fnCall.fn = "_time_matches"
    /\ fnValues = <<>>
    /\ fnValues' = << _time_matches(fnCall.search, fnCall.candidate) >>
    /\ UNCHANGED << ledger, fnCall >>

\* update_appointment's scan of one worksheet, lines 721-754: its candidates
ScanSheet ==
    /\ fnCall.fn = "scan"
    /\ fnValues = <<>>
    /\ fnValues' = << SheetCandidates(fnCall.sheet, fnCall.args) >>
    /\ UNCHANGED << ledger, fnCall >>

\* update_appointment on a loaded workbook, lines 701-841: the scan, the
\* decision and the mutation in memory
ScanWorkbook ==
    /\ fnCall.fn = "update_appointment"
    /\ fnValues = <<>>
    /\ fnValues' = << ScanAndMutate(fnCall.sheets, fnCall.mode, fnCall.args) >>
    /\ UNCHANGED << ledger, fnCall >>

\* _normalize_time_bucket(value)
NormalizeTimeBucket ==
    /\ fnCall.fn = "_normalize_time_bucket"
    /\ fnValues = <<>>
    /\ fnValues' = << _normalize_time_bucket(fnCall.value) >>
    /\ UNCHANGED << ledger, fnCall >>

HelperNext ==
    \/ ScanWorkbook
    \/ NormalizeTimeBucket
    \/ EnsureHeaders
    \/ PhoneMatches
    \/ TextMatches
    \/ DateMatches
    \/ TimeMatches
    \/ ScanSheet

HelperSpec == HelperInit /\ [][HelperNext]_vars

\* ---------------------------------------------------------------- claims

\* data rows over all worksheets
DataRows(f) ==
    LET RECURSIVE Sum(_)
        Sum(k) == IF k = 0 THEN 0 ELSE Len(f.sheets[k].rows) + Sum(k - 1)
    IN Sum(Len(f.sheets))

\* s is between loading the workbook and finishing its save
InCritical(s) == pc[s] \in {"loaded", "mutated"}

IsUpdate(s) == op[s].kind = "update"
IsLog(s) == op[s].kind = "log"

\* C1: at most one ledger operation, of any session, is between loading the
\* workbook and finishing its save; the one that is holds the lock.
C1_MutualExclusion ==
    /\ \A s, t \in Sessions : s # t => ~(InCritical(s) /\ InCritical(t))
    /\ \A s \in Sessions : InCritical(s) => lock = s

\* C1 witness: one session is past its load and before its save while
\* another session's operation waits to enter.
C1_Witness ==
    \E s, t \in Sessions :
        /\ s # t
        /\ pc[s] = "mutated"
        /\ pc[t] = "acquire"
        /\ file.exists

\* C2: the persisted ledger is the ledger the same operations produce when
\* run one at a time, in the order of their saves; every operation ended as
\* it does in that serial run; and n successful appends added n data rows.
C2_SerialEquivalence ==
    /\ file = serial
    /\ agree
    /\ DataRows(file) = DataRows(file0) + nLogged

\* C2 witness: two appends of overlapping sessions have both been saved, the
\* second having waited for the first.
C2_Witness ==
    /\ overlap /\ ~sameLoop
    /\ nLogged = 2
    /\ DataRows(file) = 2
    /\ \E s, t \in Sessions :
          /\ s # t
          /\ IsLog(s) /\ pc[s] = "callback"
          /\ IsLog(t) /\ pc[t] = "callback"

\* C3 (as claimed): no storage failure leaves log_appointment or
\* update_appointment as an exception; each ends in a structured result.
C3_NoEscape == \A s \in Sessions : pc[s] # "raised"

\* the four search arguments of the call are all empty
FourEmpty(a) ==
    a.search_name = <<>> /\ a.search_phone = <<>> /\ a.search_date = <<>> /\ a.search_time = <<>>

\* s's update has a result in hand
Answered(s) == IsUpdate(s) /\ pc[s] \in {"callback", "awaiting"}

\* C4 (as claimed): an update called with the four search arguments empty
\* ends missing_search, whatever its other arguments.
C4_Original ==
    \A s \in Sessions :
        Answered(s) /\ FourEmpty(op[s].args) => res[s].status = "missing_search"

\* C4 (amended): an update called with the four search arguments empty and
\* with neither patient_name nor phone (which the code takes as search_name
\* and search_phone when those are empty) ends missing_search, without
\* taking the lock, loading, scanning or changing anything, whatever the
\* ledger holds and whatever its other arguments.
C4_MissingSearch ==
    \A s \in Sessions :
        IsUpdate(s) /\ FourEmpty(op[s].args)
        /\ op[s].args.patient_name = <<>> /\ op[s].args.phone = <<>>
        => /\ pc[s] \in {"ready", "callback", "awaiting"}
           /\ lock # s
           /\ wb[s] = <<>>
           /\ sel[s] = NoSel
           /\ pc[s] # "ready" => res[s].status = "missing_search"

\* C4 witness: such a call, carrying update fields, has been answered
\* missing_search over a ledger that holds rows.
C4_Witness ==
    \E s \in Sessions :
        /\ IsUpdate(s) /\ FourEmpty(op[s].args)
        /\ op[s].args.patient_name = <<>> /\ op[s].args.phone = <<>>
        /\ op[s].args.preferred_date # <<>>
        /\ pc[s] = "awaiting"
        /\ delivered[s].status = "missing_search"
        /\ file.exists /\ DataRows(file) > 0


\* ------------------------------------------------- rows seen by field name

Required == {APPOINTMENTS_HEADERS[i] : i \in 1..Len(APPOINTMENTS_HEADERS)}

\* the worksheet named n of a workbook
SheetOf(sheets, n) == sheets[SheetIndex(sheets, n)]

\* the value row row_idx holds under the header cell naming h (empty when no
\* header cell names h)
FieldOf(sheet, row_idx, h) ==
    LET cols == {p \in 1..Len(sheet.hdr) : sheet.hdr[p] = h}
    IN IF cols = {} THEN <<>> ELSE CellValue(sheet, row_idx, SetMax(cols))

\* the update argument a call supplies for the field named h
Supplied(a, h) ==
    CASE h = "Patient Name" -> a.patient_name
      [] h = "Patient Age or DOB" -> a.patient_age_or_dob
      [] h = "Phone" -> a.phone
      [] h = "Department or Doctor" -> a.department_or_doctor
      [] h = "Reason" -> a.reason
      [] h = "Preferred Date" -> a.preferred_date
      [] h = "Preferred Time" -> a.preferred_time
      [] h = "Visit Type" -> a.visit_type
      [] h = "Existing Appointment" -> a.existing_appointment
      [] h = "Notes" -> a.notes
      [] OTHER -> <<>>

\* rows without the k-th
Without(rows, k) == SubSeq(rows, 1, k - 1) \o SubSeq(rows, k + 1, Len(rows))

\* s has scanned and mutated its workbook and is about to save it: the
\* file still holds the ledger as it was loaded
Mutated(s) == IsUpdate(s) /\ pc[s] = "mutated"

\* s's scan ended without a mutation and s is still inside the with-block
Declined(s) ==
    IsUpdate(s) /\ lock = s /\ pc[s] \in {"callback", "awaiting"} /\ res[s].status # "updated"

\* every row but the selected one is where and what it was; the selected one
\* is in its place or is the one row added to another worksheet
OnlySelectedTouched(pre, post, c, dest) ==
    /\ Len(post) >= Len(pre)
    /\ \A i \in 1..Len(pre) :
          /\ post[i].name = pre[i].name
          /\ IF pre[i].name = c.sheet
             THEN IF dest = c.sheet
                  THEN /\ Len(post[i].rows) = Len(pre[i].rows)
                       /\ Without(post[i].rows, c.row - 1) = Without(pre[i].rows, c.row - 1)
                  ELSE post[i].rows = Without(pre[i].rows, c.row - 1)
             ELSE IF pre[i].name = dest
                  THEN /\ Len(post[i].rows) = Len(pre[i].rows) + 1
                       /\ SubSeq(post[i].rows, 1, Len(pre[i].rows)) = pre[i].rows
                  ELSE post[i].rows = pre[i].rows
    /\ \A i \in (Len(pre) + 1)..Len(post) : post[i].name = dest /\ Len(post[i].rows) = 1

\* the rows of every worksheet
AllRows(sheets) == [i \in 1..Len(sheets) |-> sheets[i].rows]

\* C5: when more than one row is a candidate and neither search_date nor
\* search_time was supplied, update_appointment answers multiple_matches,
\* changes no row and lists min(k, 10) of the k candidates in scan order;
\* when a supplied search_date leaves exactly one candidate, that row and no
\* other is updated.
C5_Ambiguity ==
    \A s \in Sessions :
        LET a == op[s].args
            cands == Candidates(file.sheets, sheet_mode, a)
            k == Len(cands)
            many == k > 1 /\ a.search_date = <<>> /\ a.search_time = <<>>
        IN /\ Mutated(s) => ~many
           /\ Declined(s) /\ many =>
                 /\ res[s].status = "multiple_matches"
                 /\ AllRows(wb[s]) = AllRows(file.sheets)
                 /\ Len(res[s].matches) = (IF k < 10 THEN k ELSE 10)
                 /\ \A j \in 1..Len(res[s].matches) :
                       /\ res[s].matches[j].sheet = cands[j].sheet
                       /\ res[s].matches[j].row = cands[j].row
                       /\ res[s].matches[j].patient_name =
                             FieldOf(SheetOf(wb[s], cands[j].sheet), cands[j].row, "Patient Name")
                 /\ \A i, j \in 1..Len(res[s].matches) :
                       i < j /\ cands[i].sheet = cands[j].sheet => cands[i].row < cands[j].row
           /\ Mutated(s) /\ a.search_date # <<>> /\ k = 1 =>
                 /\ sel[s] = cands[1]
                 /\ OnlySelectedTouched(file.sheets, wb[s], cands[1], loc[s].sheet)

\* C5 witness: over a ledger of more than ten bookings of one patient, a
\* search narrowed by date has updated the one row of that date, and a later
\* search by name alone is answered multiple_matches with ten entries.
C5_Witness ==
    \E s \in Sessions :
        /\ Declined(s)
        /\ op[s].args.search_name = S_ANN /\ op[s].args.search_date = <<>>
        /\ Len(Candidates(file.sheets, sheet_mode, op[s].args)) > 10
        /\ delivered[s].status = "multiple_matches"
        /\ Len(delivered[s].matches) = 10
        /\ FieldOf(file.sheets[1], 2, "Action") = A_RESCHEDULE
        /\ FieldOf(file.sheets[1], 2, "Existing Appointment") # <<>>
        /\ \A r \in 3..MaxRow(file.sheets[1]) : FieldOf(file.sheets[1], r, "Action") = A_BOOK

\* the value the field named h is claimed to hold after a call with
\* arguments a updated the row that held old under h
Merged(h, a, old, prior_date, prior_time) ==
    IF h = "Action" THEN _cell_text(a.action)
    ELSE IF h = "Phone" /\ a.phone # <<>> THEN OrElse(_normalize_phone(a.phone), a.phone)
    ELSE IF h = "Preferred Date" /\ a.preferred_date # <<>>
         THEN OrElse(_normalize_date(a.preferred_date), a.preferred_date)
    ELSE IF Supplied(a, h) # <<>> THEN Supplied(a, h)
    ELSE IF h = "Existing Appointment" /\ IsResched(a) /\ old = <<>>
         THEN JoinNonEmpty(prior_date, prior_time)
    ELSE old

\* the worksheet a rescheduled row is routed to under date-sharded routing
Destination(a) == _safe_sheet_name(_normalize_date(a.preferred_date))

\* s's update is a reschedule to a date whose worksheet is not the row's
Relocating(s) ==
    /\ Mutated(s)
    /\ ~_use_single_appointments_sheet(sheet_mode)
    /\ IsResched(op[s].args)
    /\ Destination(op[s].args) # <<>>
    /\ Destination(op[s].args) # sel[s].sheet

\* C6 (as claimed): under date-sharded routing, after a reschedule to a date
\* whose worksheet differs from the row's, the row is gone from its
\* worksheet and is exactly one new row of the destination worksheet, whose
\* fields hold the merged values, the existing appointment being the prior
\* date and time when the row had none and none was supplied.
C6_Relocation ==
    \A s \in Sessions :
        Relocating(s) =>
            LET a == op[s].args
                dest == Destination(a)
                src0 == SheetOf(file.sheets, sel[s].sheet)
                r == sel[s].row
            IN /\ HasSheet(wb[s], dest)
               /\ OnlySelectedTouched(file.sheets, wb[s], sel[s], dest)
               /\ \A h \in Required :
                     FieldOf(SheetOf(wb[s], dest), MaxRow(SheetOf(wb[s], dest)), h)
                        = Merged(h, a, FieldOf(src0, r, h),
                                 FieldOf(src0, r, "Preferred Date"),
                                 FieldOf(src0, r, "Preferred Time"))

\* the synthesized snapshot rule applies to the row
SnapshotApplies(a, sheet, r) ==
    /\ IsResched(a)
    /\ a.existing_appointment = <<>>
    /\ FieldOf(sheet, r, "Existing Appointment") = <<>>
    /\ JoinNonEmpty(FieldOf(sheet, r, "Preferred Date"), FieldOf(sheet, r, "Preferred Time")) # <<>>

\* C7 (as claimed): an update that ends updated changes, in the matched row,
\* only Action, the fields with a non-empty update value and the existing
\* appointment when the snapshot rule applies; every other field keeps its
\* value.
C7_Frame ==
    \A s \in Sessions :
        Mutated(s) =>
            LET a == op[s].args
                src0 == SheetOf(file.sheets, sel[s].sheet)
                r == sel[s].row
                post == SheetOf(wb[s], loc[s].sheet)
                r1 == IF loc[s].sheet = sel[s].sheet THEN r ELSE MaxRow(post)
            IN \A h \in Required :
                  \/ h = "Action"
                  \/ Supplied(a, h) # <<>>
                  \/ h = "Existing Appointment" /\ SnapshotApplies(a, src0, r)
                  \/ FieldOf(post, r1, h) = FieldOf(src0, r, h)

\* every worksheet's header row names every required column
HeadersComplete(f) ==
    \A i \in 1..Len(f.sheets) :
        Required \subseteq {f.sheets[i].hdr[p] : p \in 1..Len(f.sheets[i].hdr)}

\* every worksheet of f is a worksheet of g, with every header cell where it was
HeadersStay(f, g) ==
    \A i \in 1..Len(f.sheets) :
        /\ i <= Len(g.sheets)
        /\ g.sheets[i].name = f.sheets[i].name
        /\ Len(g.sheets[i].hdr) >= Len(f.sheets[i].hdr)
        /\ \A p \in 1..Len(f.sheets[i].hdr) :
              f.sheets[i].hdr[p] # "" => g.sheets[i].hdr[p] = f.sheets[i].hdr[p]

\* C8: starting from an absent ledger, every worksheet of the persisted
\* ledger names every required column in its header row at all times, and a
\* header found at a column position stays at that position ever after.
C8_Headers ==
    [][ /\ ~file0.exists => HeadersComplete(file')
        /\ HeadersStay(file, file') ]_vars

\* C8 witness: from an absent ledger, appends and a relocating update have
\* left a ledger of several worksheets, each with the required header row.
C8_Witness ==
    /\ ~file0.exists
    /\ file.exists
    /\ Len(file.sheets) >= 2
    /\ HeadersComplete(file)
    /\ \E s \in Sessions : IsUpdate(s) /\ pc[s] = "callback" /\ res[s].moved

\* q is p after at most one of: a row changed in place, a row appended, a
\* row deleted
OrderKept(p, q) ==
    \/ /\ Len(q) = Len(p)
       /\ \E k \in 1..(Len(p) + 1) : Without(q, k) = Without(p, k)
    \/ /\ Len(q) = Len(p) + 1
       /\ SubSeq(q, 1, Len(p)) = p
    \/ /\ Len(q) + 1 = Len(p)
       /\ \E k \in 1..Len(p) : q = Without(p, k)

\* the step is the save of an update
UpdateSaved == \E s \in Sessions : Mutated(s) /\ file' # file

\* C9: the data rows over all worksheets never become fewer; the save of an
\* update leaves their number as it was; and in every worksheet the rows
\* that remain keep their order, a step changing, appending or deleting at
\* most one row of it.
C9_Rows ==
    [][ /\ DataRows(file') >= DataRows(file)
        /\ UpdateSaved => DataRows(file') = DataRows(file)
        /\ \A i \in 1..Len(file.sheets) :
              /\ i <= Len(file'.sheets)
              /\ file'.sheets[i].name = file.sheets[i].name
              /\ OrderKept(file.sheets[i].rows, file'.sheets[i].rows) ]_vars

\* C9 witness: a relocation has been saved, out of a worksheet that keeps
\* other rows, and the ledger holds one row per logged call.
C9_Witness ==
    \E s \in Sessions :
        /\ IsUpdate(s) /\ pc[s] = "callback"
        /\ res[s].status = "updated" /\ res[s].moved
        /\ sel[s].sheet # res[s].sheet
        /\ Len(SheetOf(file.sheets, sel[s].sheet).rows) >= 1
        /\ DataRows(file) = DataRows(file0) + nLogged

\* C10: log_appointment on a path where no file exists creates the file
\* with exactly one worksheet, named by the routing policy, whose header row
\* is the required header list and which holds exactly one data row, the
\* logged one.
C10_FirstLog ==
    [][ \A s \in Sessions :
            IsLog(s) /\ ~file.exists /\ pc[s] = "mutated" /\ file'.exists =>
                /\ Len(file'.sheets) = 1
                /\ file'.sheets[1].name =
                      (IF sheet_mode = "single" THEN DEFAULT_APPOINTMENTS_SHEET
                       ELSE IF op[s].args.preferred_date = D2 THEN D2 ELSE D1)
                /\ file'.sheets[1].hdr = APPOINTMENTS_HEADERS
                /\ Len(file'.sheets[1].rows) = 1
                /\ \A i \in 1..Len(APPOINTMENTS_HEADERS) :
                      FieldOf(file'.sheets[1], 2, APPOINTMENTS_HEADERS[i]) = loc[s].row[i] ]_vars

\* C10 witness: the first call of a run has logged into a ledger that did
\* not exist.
C10_Witness ==
    \E s \in Sessions :
        /\ ~file0.exists
        /\ IsLog(s) /\ pc[s] = "callback" /\ res[s].status = "logged"
        /\ nLogged = 1
        /\ Len(file.sheets) = 1 /\ DataRows(file) = 1
        /\ \A t \in Sessions : t # s => pc[t] = "idle"

\* s has a tool call in progress
InProgress(s) == pc[s] \notin {"idle", "raised"}

\* C11 (as claimed): under fair scheduling of the sessions, every invoked
\* log_appointment or update_appointment eventually finishes (returns or
\* fails), so the lock it took is released and no session waits for the
\* lock forever.
C11_Finishes == \A s \in Sessions : InProgress(s) ~> ~InProgress(s)

\* ------------------------------------------------ criteria seen by field name

\* row r of the worksheet holds a value
NonBlank(sheet, r) == \E p \in 1..MaxColumn(sheet) : CellValue(sheet, r, p) # <<>>

\* row r satisfies the criteria name, phone, date and time, each testing
\* only when it is supplied: the name by containment, the phone by the phone
\* rule on digits, the date and the time against the preferred field or the
\* existing-appointment text
Satisfies(name, phone, date, time, sheet, r) ==
    /\ name # <<>> => _text_matches(name, _cell_text(FieldOf(sheet, r, "Patient Name")))
    /\ phone # <<>> =>
          _phone_matches(_normalize_phone(phone),
                         _normalize_phone(_cell_text(FieldOf(sheet, r, "Phone"))))
    /\ date # <<>> =>
          \/ _date_matches(date, _cell_text(FieldOf(sheet, r, "Preferred Date")))
          \/ _date_matches(date, _cell_text(FieldOf(sheet, r, "Existing Appointment")))
    /\ time # <<>> =>
          \/ _time_matches(time, _cell_text(FieldOf(sheet, r, "Preferred Time")))
          \/ _time_matches(time, _cell_text(FieldOf(sheet, r, "Existing Appointment")))

\* the date test of Satisfies on the normalized search date
DateHit(date_norm, candidate) ==
    candidate # <<>> /\ NormsMatch(date_norm, Lower(Strip(_normalize_date(candidate))))

\* Satisfies, the phone and the date criteria being given normalized as well
SatisfiesNorm(name, phone_norm, date, date_norm, time, sheet, r) ==
    /\ name # <<>> => _text_matches(name, _cell_text(FieldOf(sheet, r, "Patient Name")))
    /\ phone_norm # <<>> =>
          _phone_matches(phone_norm, _normalize_phone(_cell_text(FieldOf(sheet, r, "Phone"))))
    /\ date # <<>> =>
          \/ DateHit(date_norm, _cell_text(FieldOf(sheet, r, "Preferred Date")))
          \/ DateHit(date_norm, _cell_text(FieldOf(sheet, r, "Existing Appointment")))
    /\ time # <<>> =>
          \/ _time_matches(time, _cell_text(FieldOf(sheet, r, "Preferred Time")))
          \/ _time_matches(time, _cell_text(FieldOf(sheet, r, "Existing Appointment")))

\* some non-blank data row of some worksheet satisfies the criteria
SomeRow(sheets, name, phone, date, time) ==
    \E phone_norm \in {_normalize_phone(phone)} :
        \E date_norm \in {Lower(Strip(_normalize_date(_cell_text(date))))} :
            \E i \in 1..Len(sheets) :
                \E r \in 2..MaxRow(sheets[i]) :
                    /\ NonBlank(sheets[i], r)
                    /\ SatisfiesNorm(name, phone_norm, date, date_norm, time, sheets[i], r)

\* s's update decides in this step: it answers, or goes on to save
Decides(s) ==
    /\ IsUpdate(s)
    /\ pc[s] \in {"ready", "loaded"}
    /\ pc'[s] \in {"callback", "mutated"}

\* the step in which s's update, searching by name and phone (and its date
\* and time), decides, answers not_found exactly when the ledger is absent
\* or holds no row satisfying the criteria, and then leaves the ledger and
\* every row as they are; an update answered not_found never writes
NotFoundRule(s, name, phone) ==
    /\ Decides(s) =>
          /\ res'[s].status = "not_found"
                <=> \/ ~file.exists
                    \/ ~SomeRow(file.sheets, name, phone,
                                op[s].args.search_date, op[s].args.search_time)
          /\ res'[s].status = "not_found" =>
                /\ file' = file
                /\ pc'[s] = "callback"
                /\ pc[s] = "loaded" => AllRows(wb'[s]) = AllRows(file.sheets)
    /\ Answered(s) /\ res[s].status = "not_found" /\ pc'[s] # pc[s] => file' = file

\* C12 (as claimed): an update called with one of the four search arguments
\* answers not_found exactly when the ledger file does not exist or no
\* non-blank data row satisfies all of the search arguments supplied.
C12_Original ==
    [][ \A s \in Sessions :
            ~FourEmpty(op[s].args) =>
                NotFoundRule(s, op[s].args.search_name, op[s].args.search_phone) ]_vars

\* C12 (amended): an update with a search criterion, the name and the phone
\* criteria being search_name and search_phone or, when those are empty,
\* patient_name and phone, answers not_found exactly when the ledger file
\* does not exist or no non-blank data row of any worksheet satisfies all
\* the criteria; then no file is created and no row is changed.
C12_NotFound ==
    [][ \A s \in Sessions :
            ~NoSearch(op[s].args) =>
                NotFoundRule(s, SearchName(op[s].args), SearchPhone(op[s].args)) ]_vars

\* C12 witness: an update narrowed by date has been answered not_found over
\* a ledger that holds rows of the patient searched for.
C12_Witness ==
    \E s \in Sessions :
        /\ Answered(s) /\ lock = s
        /\ res[s].status = "not_found"
        /\ op[s].args.search_name = S_ANN /\ op[s].args.search_date # <<>>
        /\ file.exists
        /\ SomeRow(file.sheets, S_ANN, <<>>, <<>>, <<>>)
        /\ AllRows(wb[s]) = AllRows(file.sheets)

\* the call reroutes a row of the worksheet named sheet_name: routing is
\* date-sharded, the action is a reschedule, and a new preferred date is
\* supplied whose worksheet is another one
Reroutes(a, sheet_name) ==
    /\ ~_use_single_appointments_sheet(sheet_mode)
    /\ IsResched(a)
    /\ a.preferred_date # <<>>
    /\ Destination(a) # <<>>
    /\ Destination(a) # sheet_name

\* Reroutes, dest being Destination(a)
ReroutesTo(a, sheet_name, dest) ==
    /\ ~_use_single_appointments_sheet(sheet_mode)
    /\ IsResched(a)
    /\ a.preferred_date # <<>>
    /\ dest # <<>>
    /\ dest # sheet_name

\* what C13 says of the workbook after the scan of an update with the
\* arguments a, which chose the row chosen of the ledger sheets and left
\* the workbook book with the row in the worksheet named target
MovedRule(a, sheets, book, chosen, target) ==
    \E dest \in {Destination(a)} :
        IF ReroutesTo(a, chosen.sheet, dest)
        THEN /\ target = dest
             /\ HasSheet(book, dest)
             /\ OnlySelectedTouched(sheets, book, chosen, dest)
        ELSE /\ target = chosen.sheet
             /\ OnlySelectedTouched(sheets, book, chosen, chosen.sheet)

\* what C13 says of the result of an update with the arguments a that
\* chose the row chosen
MovedResult(a, chosen, result) ==
    IF result.status = "updated"
    THEN /\ result.moved <=> Reroutes(a, chosen.sheet)
         /\ result.sheet = (IF result.moved THEN Destination(a) ELSE chosen.sheet)
         /\ _use_single_appointments_sheet(sheet_mode) => ~result.moved
    ELSE ~result.moved

HeaderComplete(sheet) == Required \subseteq {sheet.hdr[p] : p \in 1..Len(sheet.hdr)}

\* C14: _ensure_sheet_headers is idempotent: on a worksheet whose header row
\* names every required column it adds no column, changes no cell and
\* returns a map giving each name the position of its header cell; applied
\* again to the worksheet it left, it leaves that worksheet as it is and
\* returns the same header map.
C14_Idempotent ==
    fnCall.fn = "_ensure_sheet_headers" =>
        /\ \A i \in 1..Len(fnValues) :
              /\ HeaderComplete(fnValues[i].sheet)
              /\ Required \subseteq DOMAIN fnValues[i].header_map
              /\ \A n \in DOMAIN fnValues[i].header_map :
                    fnValues[i].sheet.hdr[fnValues[i].header_map[n]] = n
              /\ fnValues[i].sheet.rows = fnCall.sheet.rows
              /\ HeaderComplete(fnCall.sheet) => fnValues[i].sheet = fnCall.sheet
        /\ \A i \in 2..Len(fnValues) : fnValues[i] = fnValues[1]

\* C14 witness: a worksheet with data rows whose header row lacked required
\* columns and held an empty cell and a column outside the schema has been
\* reconciled twice.
C14_Witness ==
    /\ fnCall.fn = "_ensure_sheet_headers"
    /\ Len(fnValues) = 2
    /\ fnCall.sheet.hdr = <<"Email", "", "Phone">>
    /\ fnCall.sheet.rows # <<>>
    /\ Len(fnValues[1].sheet.hdr) > Len(fnCall.sheet.hdr)

\* s's log_appointment has its result in hand
LogAnswered(s) == IsLog(s) /\ pc[s] \in {"callback", "awaiting"}

\* the row is a data row of the worksheet named n
HoldsRow(sheets, n, row) ==
    /\ HasSheet(sheets, n)
    /\ \E k \in 1..Len(SheetOf(sheets, n).rows) : SheetOf(sheets, n).rows[k] = row

\* the result s's log_appointment has in hand fits what happened in its
\* try block
LogResultFits(s) ==
    /\ res[s].path = LOG_PATH
    /\ loc[s].exc = "permission" => res[s].status = "error" /\ res[s].reason = "file_locked"
    /\ loc[s].exc = "other" => res[s].status = "error" /\ res[s].reason = "write_failed"
    /\ loc[s].exc = "none" => res[s].status = "logged" /\ res[s].sheet = loc[s].sheet
    /\ loc[s].exc \in {"permission", "other", "none"}
    /\ res[s].status \in {"error", "logged"}
    /\ lock # s
    /\ pc[s] = "awaiting" => delivered[s] = res[s]
    /\ pc[s] = "callback" => delivered[s] = NoResult

\* C15: log_appointment answers error/file_locked when loading, appending
\* or saving failed with a permission error, error/write_failed when it
\* failed otherwise, and logged, with the path and the name of the worksheet
\* that holds the row once saved, when nothing failed; the one result built
\* is the one result_callback receives.
C15_LogResult ==
    [][ \A s \in Sessions :
            /\ LogAnswered(s)' => LogResultFits(s)'
            /\ IsLog(s) /\ pc[s] = "mutated" /\ pc'[s] = "callback"
               /\ loc'[s].exc = "none" =>
                  /\ file'.exists
                  /\ HoldsRow(file'.sheets, res'[s].sheet, loc[s].row)
            /\ IsLog(s) /\ pc[s] \in {"locked", "loaded", "mutated"}
               /\ pc'[s] = "callback" /\ loc'[s].exc # "none" => file' = file ]_vars

\* C15 witness: in one run a log call has been answered logged and a later
\* one, which met a permission error, file_locked, the ledger still holding
\* the first call's row only.
C15_Witness ==
    \E s \in Sessions :
        /\ IsLog(s) /\ pc[s] = "awaiting"
        /\ loc[s].exc = "permission"
        /\ delivered[s].status = "error" /\ delivered[s].reason = "file_locked"
        /\ nLogged = 1 /\ file = serial
        /\ ~HoldsRow(file.sheets, loc[s].sheet, loc[s].row)

\* the step is the save of s's log_appointment, nothing having failed
LogSaved(s) ==
    /\ IsLog(s) /\ pc[s] = "mutated" /\ pc'[s] = "callback"
    /\ loc'[s].exc = "none"

\* post is pre with row added as the last row of the worksheet named n, a
\* worksheet added after the others when pre has none of that name
RowAdded(pre, post, n, row) ==
    /\ Len(post) = (IF HasSheet(pre, n) THEN Len(pre) ELSE Len(pre) + 1)
    /\ \A i \in 1..Len(pre) :
          /\ post[i].name = pre[i].name
          /\ post[i].rows = (IF pre[i].name = n THEN Append(pre[i].rows, row) ELSE pre[i].rows)
    /\ ~HasSheet(pre, n) => post[Len(post)].name = n /\ post[Len(post)].rows = <<row>>

\* C16: a log call that ends logged searches no row and adds exactly one
\* row, the one it built, as the last row of the routed worksheet; every
\* data row that existed stays what and where it was in every worksheet,
\* whatever rows exist, rows identical to the new one included.
C16_Append ==
    [][ \A s \in Sessions :
            /\ IsLog(s) => sel[s] = NoSel /\ sel'[s] = NoSel
            /\ LogSaved(s) =>
                  /\ res'[s].status = "logged"
                  /\ RowAdded(file.sheets, file'.sheets, res'[s].sheet, loc[s].row)
                  /\ DataRows(file') = DataRows(file) + 1 ]_vars

\* C16 witness: a log call has been answered logged after adding a row
\* below an identical one.
C16_Witness ==
    \E s \in Sessions :
        /\ LogAnswered(s) /\ res[s].status = "logged"
        /\ HasSheet(file.sheets, res[s].sheet)
        /\ LET rows == SheetOf(file.sheets, res[s].sheet).rows
           IN /\ Len(rows) >= 2
              /\ rows[Len(rows)] = loc[s].row
              /\ rows[Len(rows) - 1] = loc[s].row

\* s is an ending of c
IsSuffix(s, c) ==
    /\ Len(s) <= Len(c)
    /\ \A i \in 1..Len(s) : s[i] = c[Len(c) - Len(s) + i]

\* C17: for non-empty normalized phones s and c, _phone_matches(s, c) is
\* true exactly when s = c, or s has at least 7 digits and is an ending of
\* c, or c has at least 7 digits and is an ending of s; so 1234567 matches
\* 98881234567 and does not match 999; and the value is the same with s and
\* c exchanged.
C17_PhoneRule ==
    fnCall.fn = "_phone_matches" /\ fnValues # <<>>
    /\ fnCall.search # <<>> /\ fnCall.candidate # <<>> =>
        LET s == fnCall.search
            c == fnCall.candidate
        IN /\ fnValues[1] <=> \/ s = c
                              \/ Len(s) >= 7 /\ IsSuffix(s, c)
                              \/ Len(c) >= 7 /\ IsSuffix(c, s)
           /\ s = S_PHONE7 /\ c = P_LONG => fnValues[1]
           /\ s = S_PHONE7 /\ c = P_SHORT => ~fnValues[1]
           /\ fnValues[1] = _phone_matches(c, s)

\* C17 witness: a six-digit ending of a longer number has been compared
\* with it and found not to match.
C17_Witness ==
    /\ fnCall.fn = "_phone_matches"
    /\ Len(fnCall.search) = 6 /\ Len(fnCall.candidate) = 11
    /\ IsSuffix(fnCall.search, fnCall.candidate)
    /\ fnValues = << FALSE >>

MatchPredicates == {"_phone_matches", "_text_matches", "_date_matches", "_time_matches"}

\* row r is among the candidates cands of its worksheet
Listed(cands, r) == \E k \in 1..Len(cands) : cands[k].row = r

\* a match predicate applied to an empty search token returned true
EmptyTokenMatches ==
    fnCall.fn \in MatchPredicates /\ fnValues # <<>> /\ fnCall.search = <<>> =>
        fnValues[1] = TRUE

\* the scan kept every non-blank row that satisfies the criteria name, phone
\* and the call's date and time, as far as they are supplied
ScanKeeps(name, phone) ==
    \A r \in 2..MaxRow(fnCall.sheet) :
        /\ NonBlank(fnCall.sheet, r)
        /\ Satisfies(name, phone, fnCall.args.search_date, fnCall.args.search_time,
                     fnCall.sheet, r)
        => Listed(fnValues[1], r)

\* a worksheet has been scanned
ScanDone == fnCall.fn = "scan" /\ fnValues # <<>>

\* C18 (as claimed): each of the four match predicates is true of an empty
\* search token whatever the candidate; so no row is kept out of the
\* candidates by a search argument that was omitted.
C18_Original ==
    /\ EmptyTokenMatches
    /\ ScanDone => ScanKeeps(fnCall.args.search_name, fnCall.args.search_phone)

\* C18 (amended): each of the four match predicates is true of an empty
\* search token whatever the candidate, the empty one included; so no row is
\* kept out of the candidates by a criterion that is empty, the name and
\* phone criteria being search_name and search_phone or, when those are
\* empty, patient_name and phone.
C18_EmptyToken ==
    /\ EmptyTokenMatches
    /\ ScanDone => ScanKeeps(SearchName(fnCall.args), SearchPhone(fnCall.args))

\* C18 witness: a scan by time alone has kept the row of that time, whose
\* name, phone and date were not asked for, and left out the blank row.
C18_Witness ==
    /\ fnCall.fn = "scan"
    /\ NoSearch([fnCall.args EXCEPT !.search_time = <<>>])
    /\ fnCall.args.search_time # <<>>
    /\ fnCall.sheet.hdr = APPOINTMENTS_HEADERS
    /\ fnValues # <<>>
    /\ Listed(fnValues[1], 2) /\ ~Listed(fnValues[1], 3)

\* the Existing Appointment text claimed for a row after an update with
\* arguments a: the one supplied; else, for a reschedule of a row that has
\* none but has a date or a time, that date and time; else the one it had
ExistingAfter(a, sheet, r) ==
    IF a.existing_appointment # <<>> THEN a.existing_appointment
    ELSE IF SnapshotApplies(a, sheet, r)
    THEN JoinNonEmpty(FieldOf(sheet, r, "Preferred Date"), FieldOf(sheet, r, "Preferred Time"))
    ELSE FieldOf(sheet, r, "Existing Appointment")

\* C19 (as claimed): an update writes the synthesized snapshot, the row's
\* pre-update preferred date and time, into Existing Appointment exactly
\* when the action is a reschedule, no existing_appointment is supplied, the
\* row has none and has a date or a time; a snapshot once there is kept by
\* every later reschedule that supplies none, so the field goes on holding
\* the date and time that preceded the first reschedule.
C19_Snapshot ==
    \A s \in Sessions :
        Mutated(s) =>
            LET a == op[s].args
                src0 == SheetOf(file.sheets, sel[s].sheet)
                post == SheetOf(wb[s], loc[s].sheet)
                r1 == IF loc[s].sheet = sel[s].sheet THEN sel[s].row ELSE MaxRow(post)
            IN FieldOf(post, r1, "Existing Appointment") = ExistingAfter(a, src0, sel[s].row)

\* row r of the worksheet named n is a non-blank row satisfying the
\* criteria name, phone and the call's date and time
Qualifies(sheets, n, r, name, phone, a) ==
    /\ HasSheet(sheets, n)
    /\ r \in 2..MaxRow(SheetOf(sheets, n))
    /\ NonBlank(SheetOf(sheets, n), r)
    /\ Satisfies(name, phone, a.search_date, a.search_time, SheetOf(sheets, n), r)

\* Qualifies, the phone and the date criteria being given normalized
QualifiesNorm(sheets, n, r, name, phone_norm, date_norm, a) ==
    /\ HasSheet(sheets, n)
    /\ r \in 2..MaxRow(SheetOf(sheets, n))
    /\ NonBlank(SheetOf(sheets, n), r)
    /\ SatisfiesNorm(name, phone_norm, a.search_date, date_norm, a.search_time,
                     SheetOf(sheets, n), r)

\* s's update has scanned the ledger and still holds the lock
ScannedBy(s) == Mutated(s) \/ Declined(s)

\* the step is the scan of s's update_appointment, lines 714-841
Scans(s) == IsUpdate(s) /\ pc[s] = "loaded" /\ ScannedBy(s)'

\* the rows a result lists as multiple matches
MatchesOf(result) ==
    IF result.status = "multiple_matches" THEN result.matches ELSE <<>>

\* row r of the worksheet named n is one of the candidates
Among(cands, n, r) == \E k \in 1..Len(cands) : cands[k].sheet = n /\ cands[k].row = r

\* the row chosen for mutation, if one was, and the rows listed as multiple
\* matches are candidates, and the candidates are the rows of the ledger
\* that qualify
CandidateRule(sheets, name, phone, a, cands, mutated, chosen, listed) ==
    \E pn \in {_normalize_phone(phone)} :
        \E dn \in {Lower(Strip(_normalize_date(_cell_text(a.search_date))))} :
            /\ mutated => Among(cands, chosen.sheet, chosen.row)
            /\ \A j \in 1..Len(listed) : Among(cands, listed[j].sheet, listed[j].row)
            /\ \A k \in 1..Len(cands) :
                  /\ HasSheet(sheets, cands[k].sheet)
                  /\ cands[k].row \in 2..MaxRow(SheetOf(sheets, cands[k].sheet))
            /\ \A i \in 1..Len(sheets) :
                  \A r \in 2..MaxRow(sheets[i]) :
                      QualifiesNorm(sheets, sheets[i].name, r, name, pn, dn, a) <=>
                          Among(cands, sheets[i].name, r)

\* C20 (as claimed): every row an update mutates or lists in
\* multiple_matches is a non-blank row satisfying all the search arguments
\* supplied: the name by containment, the phone by the phone rule, the date
\* against the preferred date or the existing-appointment text, the time
\* against the preferred time or that text; and every such row is a
\* candidate. Stated of the scan step, which reads the ledger as the file
\* holds it and leaves the file alone.
C20_Original ==
    [][ \A s \in Sessions :
            Scans(s) =>
                \E cands \in {Candidates(file.sheets, sheet_mode, op[s].args)} :
                    \E chosen \in {sel'[s]} :
                        \E listed \in {MatchesOf(res'[s])} :
                            CandidateRule(file.sheets, op[s].args.search_name,
                                          op[s].args.search_phone, op[s].args,
                                          cands, pc'[s] = "mutated", chosen, listed) ]_vars

\* C20 (amended): the same, the name and phone criteria being search_name
\* and search_phone or, when those are empty, patient_name and phone.
C20_Candidates ==
    [][ \A s \in Sessions :
            Scans(s) =>
                \E cands \in {Candidates(file.sheets, sheet_mode, op[s].args)} :
                    \E chosen \in {sel'[s]} :
                        \E listed \in {MatchesOf(res'[s])} :
                            CandidateRule(file.sheets, SearchName(op[s].args),
                                          SearchPhone(op[s].args), op[s].args,
                                          cands, pc'[s] = "mutated", chosen, listed) ]_vars

\* C20 witness: a search by name is answered multiple_matches over a ledger
\* that also holds a row of another name, which is not listed.
C20_Witness ==
    \E s \in Sessions :
        /\ Declined(s) /\ res[s].status = "multiple_matches"
        /\ op[s].args.search_name = S_ANN
        /\ Len(res[s].matches) >= 2
        /\ \E i \in 1..Len(file.sheets) :
              \E r \in 2..MaxRow(file.sheets[i]) :
                  /\ FieldOf(file.sheets[i], r, "Patient Name") = BOB
                  /\ \A j \in 1..Len(res[s].matches) :
                        ~(res[s].matches[j].sheet = file.sheets[i].name
                          /\ res[s].matches[j].row = r)

\* update_appointment has been applied to a loaded workbook
UpdateDone == fnCall.fn = "update_appointment" /\ fnValues # <<>>

\* the position of the worksheet named n in the scan list
Pos(order, n) == CHOOSE k \in 1..Len(order) : order[k] = n

\* the rows of the workbook that qualify under the criteria of the call, as
\* [sheet, row]
QualifyingRows(sheets, a) ==
    UNION {{[sheet |-> sheets[i].name, row |-> r] :
               r \in {q \in 2..MaxRow(sheets[i]) :
                          Qualifies(sheets, sheets[i].name, q, SearchName(a), SearchPhone(a), a)}} :
           i \in 1..Len(sheets)}

\* c comes no later than d in a scan of the worksheets in the given order,
\* rows top to bottom
NoLater(order, c, d) ==
    \/ Pos(order, c.sheet) < Pos(order, d.sheet)
    \/ c.sheet = d.sheet /\ c.row <= d.row

\* what C21 says of the outcome of update_appointment(a) on the workbook
FirstCandidateRule(sheets, mode, a, rows, outcome) ==
    (a.search_date # <<>> \/ a.search_time # <<>>) /\ rows # {} =>
        /\ outcome.status = "updated" /\ outcome.result.status = "updated"
        /\ outcome.sel \in rows
        /\ \A d \in rows : NoLater(ScanOrder(sheets, SheetHint(mode, a)), outcome.sel, d)
        /\ OnlySelectedTouched(sheets, outcome.sheets, outcome.sel, outcome.result.sheet)

\* C21: when search_date or search_time is supplied and at least one row is
\* a candidate, update_appointment answers updated, never multiple_matches,
\* and mutates the first candidate in scan order (worksheets in scan-list
\* order, rows top to bottom) and no other row.
C21_FirstCandidate ==
    UpdateDone =>
        \E rows \in {QualifyingRows(fnCall.sheets, fnCall.args)} :
            FirstCandidateRule(fnCall.sheets, fnCall.mode, fnCall.args, rows, fnValues[1])

\* C21 witness: a search by date with candidates in two worksheets has
\* updated the row of the hint worksheet, which is not the first worksheet
\* of the workbook.
C21_Witness ==
    /\ UpdateDone
    /\ fnCall.args.search_date # <<>>
    /\ fnValues[1].status = "updated"
    /\ fnValues[1].sel.sheet # fnCall.sheets[1].name
    /\ \E c, d \in QualifyingRows(fnCall.sheets, fnCall.args) : c.sheet # d.sheet

\* the outcome of the same call had the worksheets been scanned in their
\* existing order, with no hint
Unhinted(sheets, mode, a) ==
    Decide(CandidatesFrom(sheets, SheetNames(sheets), 1, a), ReconcileAll(sheets), mode, a)

\* the scan list names every worksheet of the workbook exactly once
ScansEachOnce(sheets, order) ==
    /\ Len(order) = Len(sheets)
    /\ \A i \in 1..Len(sheets) : \E k \in 1..Len(order) : order[k] = sheets[i].name
    /\ \A j, k \in 1..Len(order) : order[j] = order[k] => j = k

\* C22 (as claimed): the hint worksheet is only an optimization: an update
\* scans every worksheet exactly once, and its status and the row it
\* mutates are those of a scan of the worksheets in their existing order
\* with no hint.
C22_HintNeutral ==
    UpdateDone =>
        /\ ScansEachOnce(fnCall.sheets,
                         ScanOrder(fnCall.sheets, SheetHint(fnCall.mode, fnCall.args)))
        /\ fnValues[1].status = Unhinted(fnCall.sheets, fnCall.mode, fnCall.args).status
        /\ fnValues[1].sel = Unhinted(fnCall.sheets, fnCall.mode, fnCall.args).sel

\* the step mutates the workbook of s's update_appointment
Mutates(s) == IsUpdate(s) /\ pc[s] = "loaded" /\ pc'[s] = "mutated"

\* the step appends the row of s's log_appointment to its workbook
Appends(s) == IsLog(s) /\ pc[s] = "loaded" /\ pc'[s] = "mutated"

\* the row the update left in the workbook book, chosen being the row it
\* selected and target the worksheet it ended in
RowAfter(book, chosen, target) ==
    IF target = chosen.sheet THEN chosen.row ELSE MaxRow(SheetOf(book, target))

\* the row's Logged At value is what it was in the ledger
LoggedAtKept(sheets, book, chosen, target) ==
    FieldOf(SheetOf(book, target), RowAfter(book, chosen, target), "Logged At")
        = FieldOf(SheetOf(sheets, chosen.sheet), chosen.row, "Logged At")

\* the clock readings of a run, as log_appointment formats them
Stamps == {FormatTime(n) : n \in 0..MaxOps}

\* C23 (as claimed): the Logged At value of an appended row is the store's
\* timestamp, whatever the caller's arguments, and no update, in place or
\* relocating, changes the Logged At value of the row it mutates.
C23_LoggedAt ==
    [][ \A s \in Sessions :
            /\ Appends(s) =>
                  \E book \in {wb'[s]} :
                      FieldOf(SheetOf(book, loc[s].sheet), MaxRow(SheetOf(book, loc[s].sheet)),
                              "Logged At") \in Stamps
            /\ Mutates(s) =>
                  \E book \in {wb'[s]} :
                      \E chosen \in {sel'[s]} :
                          LoggedAtKept(file.sheets, book, chosen, loc'[s].sheet) ]_vars

\* t is a date written YYYY-MM-DD
IsIsoDate(t) ==
    /\ Len(t) = 10
    /\ t[5] = "-" /\ t[8] = "-"
    /\ AllDigits(t, 1, 4) /\ AllDigits(t, 6, 7) /\ AllDigits(t, 9, 10)
    /\ _normalize_date(t) = t

\* every row whose Preferred Date is a normalized date is in the worksheet
\* named by that date
Sharded(sheets) ==
    \A i \in 1..Len(sheets) :
        \A r \in 2..MaxRow(sheets[i]) :
            IsIsoDate(FieldOf(sheets[i], r, "Preferred Date")) =>
                sheets[i].name = FieldOf(sheets[i], r, "Preferred Date")

\* C24 (as claimed): under date-sharded routing every row whose Preferred
\* Date is a normalized YYYY-MM-DD date resides in the worksheet named by
\* that date: an update of a ledger in which that holds leaves a workbook
\* in which it holds.
C24_Sharded ==
    UpdateDone /\ fnCall.mode = "per_date" /\ Sharded(fnCall.sheets) =>
        Sharded(fnValues[1].sheets)

BucketDone == fnCall.fn = "_normalize_time_bucket" /\ fnValues # <<>>

\* value holds none of the words that name a bucket
NoKeyword(value) ==
    \A k \in {W_MORNING, W_AM, W_AFTERNOON, W_NOON, W_PM, W_EVENING, W_NIGHT} :
        ~Contains(Lower(value), k)

NoDigit(value) == \A i \in 1..Len(value) : ~IsDigit(value[i])

FirstDigit(value) ==
    CHOOSE i \in 1..Len(value) : IsDigit(value[i]) /\ \A j \in 1..(i - 1) : ~IsDigit(value[j])

\* the hour of the leftmost H[:MM][am|pm] in value, in 24-hour form
Hour24(value, i) ==
    LET h == Num(SubSeq(value, i, i + TimeReHourLen(value, i) - 1))
        ampm == TimeReAmPm(Lower(value), i)
    IN IF ampm = "pm" /\ h < 12 THEN h + 12
       ELSE IF ampm = "am" /\ h = 12 THEN 0
       ELSE h

\* the bucket the hour ranges give, or <<>> outside them
RangeBucket(h) ==
    IF h \in 5..11 THEN W_MORNING
    ELSE IF h \in 12..16 THEN W_AFTERNOON
    ELSE IF h \in 17..22 THEN W_EVENING
    ELSE <<>>

StepOf(s) == pc'[s] # pc[s]

\* s's update has not reached, and does not reach with this step, the
\* status updated
NotUpdated(s) ==
    /\ IsUpdate(s)
    /\ pc[s] \in {"callback", "awaiting"} => res[s].status # "updated"
    /\ pc'[s] = "callback" => res'[s].status # "updated"

\* C26: an update_appointment call that returns missing_search, not_found
\* or multiple_matches leaves the persisted ledger as it was at each of
\* its steps; the headers it reconciled in memory are not saved.
C26_Unsaved ==
    [][\A s \in Sessions : StepOf(s) /\ NotUpdated(s) => file' = file]_vars

\* an update was answered not_found or multiple_matches with headers
\* reconciled in its workbook that the file does not have
C26_Witness ==
    \E s \in Sessions :
        /\ Answered(s)
        /\ res[s].status \in {"not_found", "multiple_matches"}
        /\ wb[s] # <<>>
        /\ wb[s] # file.sheets
        /\ Len(wb[s]) = Len(file.sheets)
        /\ \E i \in 1..Len(wb[s]) : Len(wb[s][i].hdr) > Len(file.sheets[i].hdr)

\* the step saves the workbook of s's update_appointment
SavesUpdate(s) ==
    /\ IsUpdate(s) /\ pc[s] = "mutated" /\ pc'[s] = "callback"
    /\ res'[s].status = "updated"

\* the header cells of pre are those of post, followed in post by added ones
HeadersGrow(pre, post) ==
    \A i \in 1..Len(pre) :
        /\ Len(post[i].hdr) >= Len(pre[i].hdr)
        /\ SubSeq(post[i].hdr, 1, Len(pre[i].hdr)) = pre[i].hdr

\* C27: an update_appointment that returns updated changes one data row of
\* the ledger: every other data row, of the same worksheet and of every
\* other worksheet, has the cell values it had, the selected row being
\* rewritten in its place or taken out and added as the last row of the
\* worksheet it moves to.
C27_OneRow ==
    [][\A s \in Sessions :
          SavesUpdate(s) =>
              /\ OnlySelectedTouched(file.sheets, file'.sheets, sel[s], loc[s].sheet)
              /\ HeadersGrow(file.sheets, file'.sheets)]_vars

\* an update of a row below the first data row of its worksheet was saved
\* in place
C27_Witness ==
    \E s \in Sessions :
        /\ Answered(s) /\ res[s].status = "updated" /\ ~res[s].moved
        /\ file.sheets = wb[s]
        /\ MaxRow(SheetOf(file.sheets, sel[s].sheet)) > 2
        /\ sel[s].row > 2

\* each value of the last row of the worksheet lies under the header cell
\* that names its field, the k-th value written being that of the k-th
\* field of APPOINTMENTS_HEADERS
LastUnderHeaders(sheet) ==
    \A k \in 1..Len(APPOINTMENTS_HEADERS) :
        FieldOf(sheet, MaxRow(sheet), APPOINTMENTS_HEADERS[k]) = CellValue(sheet, MaxRow(sheet), k)

\* the step mutates s's workbook by moving the selected row to another worksheet
Relocates(s) == Mutates(s) /\ loc'[s].sheet # sel'[s].sheet

\* C28 (as claimed): after log_appointment or a relocating
\* update_appointment, each field value of the newly written row lies in
\* the column whose header cell names that field, whatever header layout
\* the target worksheet has.
C28_UnderHeaders ==
    [][ \A s \in Sessions :
            /\ Appends(s) =>
                  \E book \in {wb'[s]} : LastUnderHeaders(SheetOf(book, loc[s].sheet))
            /\ Relocates(s) =>
                  \E book \in {wb'[s]} : LastUnderHeaders(SheetOf(book, loc'[s].sheet)) ]_vars

\* a search criterion of the call is non-empty after normalization, and so is
\* tested against every row scanned
Criterion(a) ==
    \/ Strip(Lower(SearchName(a))) # <<>>
    \/ _normalize_phone(SearchPhone(a)) # <<>>
    \/ a.search_date # <<>>
    \/ a.search_time # <<>>

\* C29 (as claimed): update_appointment mutates a row only if a search
\* criterion that is non-empty after normalization was tested against the
\* row and matched; a call whose only criterion is a search_phone without
\* digits updates no row.
C29_Criterion ==
    UpdateDone /\ fnValues[1].status = "updated" => Criterion(fnCall.args)

Success == {"logged", "updated"}

\* C30: a result with status logged or updated is handed to the result
\* callback only after the save of its operation: the result is built in
\* the step that writes the operation's workbook to the file, and is
\* delivered in a later step as it was built.
C30_SavedFirst ==
    [][ \A s \in Sessions :
            /\ res'[s].status \in Success /\ res[s].status \notin Success =>
                  /\ pc[s] = "mutated"
                  /\ wb[s] # <<>>
                  /\ file' = [exists |-> TRUE, sheets |-> wb[s]]
                  /\ delivered'[s] = NoResult
            /\ delivered'[s].status \in Success /\ delivered[s].status \notin Success =>
                  /\ pc[s] = "callback"
                  /\ delivered'[s] = res[s]
                  /\ file' = file ]_vars

\* an update's result updated has been delivered, and the file holds the
\* workbook the update mutated, other than the ledger the run began with
C30_Witness ==
    \E s \in Sessions :
        /\ IsUpdate(s) /\ pc[s] = "awaiting"
        /\ delivered[s].status = "updated"
        /\ file.sheets = wb[s]
        /\ file # file0

====
